---- MODULE Spec2Model ----
(***************************************************************************)
(* Model of the step-execution loop (api.py execute_automation,            *)
(* assistant_bot.py ActionExecutor.execute_step / _execute_action) and of  *)
(* the workflow recorder (workflow_recorder.py WorkflowRecorder) together  *)
(* with the API operations that create and discard the executor.           *)
(***************************************************************************)
EXTENDS Integers, Sequences, FiniteSets, TLC

\* ------------------------------------------------------------------------
\* Bounds of the model
\* ------------------------------------------------------------------------
\* longest plan the planner returns
MaxPlan == 3
\* number of /api/execute requests served in one behaviour
MaxRequests == 1
\* ActionExecutor objects (each with its WorkflowRecorder) ever constructed
MaxExecutors == 2
\* calls of start_recording that reach the arming of listeners
MaxSessions == 2
\* input events that pass the guard of a callback
MaxEvents == 2
\* seconds the clock advances
MaxClock == 1
\* longest buffer of a workflow found stored when replays start
MaxBuffer == 2
\* /api/execute requests that use a browser, served in one behaviour
MaxWebRequests == 2
\* longest plan of web steps
MaxWebPlan == 2

\* ------------------------------------------------------------------------
\* Action kinds (assistant_bot.py _execute_action)
\* ------------------------------------------------------------------------
WebActions == {"navigate_url", "search_google", "click_first_result"}

DesktopActions ==
    {"open_application", "type_text", "press_key",
     "click_desktop_coordinates", "take_screenshot", "wait_seconds"}

\* kinds whose branch can let an exception leave _execute_action:
\* analyze_screen (result.get on a non-dict analysis) and scrape_website
\* (web_scraper.close() in the finally block)
RaisingActions == {"analyze_screen", "scrape_website"}

OtherActions ==
    {"analyze_screen", "extract_text_from_screen", "find_visual_element",
     "scrape_website", "chat_with_ai"}

\* the workflow kinds: their branch gives what the recorder answers
WorkflowActions ==
    {"start_workflow_recording", "stop_workflow_recording", "replay_workflow"}

\* the kinds _execute_action has a branch for
DispatchedActions ==
    WebActions \cup DesktopActions \cup WorkflowActions \cup OtherActions

\* kinds the planner may put in a plan in this model: a kind tried once
\* whose handler swallows its exceptions (navigate_url), the retried text
\* entry, the click with its own loop, a kind whose branch can raise, the
\* interactive kind without a branch (click_element) and a kind nobody knows
PlanActions ==
    {"navigate_url", "type_text", "click_desktop_coordinates",
     "analyze_screen", "click_element", "launch_rocket"}

\* messages an exception can carry (error_recovery.py keys on these words)
ErrorMessages == {"timeout", "window focus lost", "boom"}

\* max_retries with a third try for the interactive kinds
max_retries_three(action) ==
    IF action \in {"click_element", "type_text"} THEN 3 ELSE 1

\* max_retries without the retry of the interactive kinds
max_retries_one(action) == 1

\* execute_step: max_retries = 2 if action in [...] else 1
max_retries(action) ==
    IF action \in {"click_element", "type_text"} THEN 2 ELSE 1

\* click_desktop_coordinates: max_attempts = 3
max_attempts == 3

\* what one pass of the click loop can observe
ClickObservations == {"changed", "same", "raise"}

RECURSIVE click_loop(_, _)
\* the for-loop of click_desktop_coordinates from index `attempt` on: obs[k]
\* is what pass k observes; returns the result and the passes made
click_loop(obs, attempt) ==
    IF attempt > max_attempts THEN [ret |-> FALSE, clicks |-> max_attempts]
    ELSE IF obs[attempt] = "changed" THEN [ret |-> TRUE, clicks |-> attempt]
    ELSE click_loop(obs, attempt + 1)

click_desktop_coordinates(obs) == click_loop(obs, 1)

\* _execute_desktop_action: every exception is swallowed into False
_execute_desktop_action(action, raw) ==
    IF raw = "ok" THEN TRUE ELSE FALSE

\* _execute_web_action: every exception is swallowed into False
_execute_web_action(action, raw) ==
    IF raw = "ok" THEN TRUE ELSE FALSE

\* raw outcomes the environment can give the handler of a kind
RawOutcomes(action) ==
    IF action \in RaisingActions THEN {"ok", "fail", "raise"}
    ELSE IF action = "click_desktop_coordinates" THEN {"ok"}
    ELSE IF action \in DispatchedActions THEN {"ok", "fail"}
    ELSE {"none"}

\* what the passes of the click loop can observe during one call of the
\* handler of a kind: only click_desktop_coordinates looks at the screen
ClickRuns(action) ==
    IF action = "click_desktop_coordinates"
    THEN [1..max_attempts -> ClickObservations]
    ELSE {[k \in 1..max_attempts |-> "same"]}

\* str(e) of the exception a raw outcome carries
Raised(raw) == IF raw = "raise" THEN ErrorMessages ELSE {""}

\* _execute_action whose default arm raises instead of returning False
_execute_action_raises(action, raw, obs) ==
    IF action \in DispatchedActions
    THEN [ret |-> IF raw = "ok" THEN "True" ELSE "False",
          handler |-> 1, clicks |-> 0]
    ELSE [ret |-> "raise", handler |-> 0, clicks |-> 0]

\* _execute_action: "True" / "False" / "raise", and whether a handler ran
_execute_action(action, raw, obs) ==
    IF action \in WebActions
      THEN [ret |-> IF _execute_web_action(action, raw) THEN "True" ELSE "False",
            handler |-> 1, clicks |-> 0]
    ELSE IF action = "click_desktop_coordinates"
      THEN [ret |-> IF click_desktop_coordinates(obs).ret THEN "True" ELSE "False",
            handler |-> 1, clicks |-> click_desktop_coordinates(obs).clicks]
    ELSE IF action \in DesktopActions
      THEN [ret |-> IF _execute_desktop_action(action, raw) THEN "True" ELSE "False",
            handler |-> 1, clicks |-> 0]
    ELSE IF action \in WorkflowActions
      THEN [ret |-> IF raw = "ok" THEN "True" ELSE "False",
            handler |-> 1, clicks |-> 0]
    ELSE IF action \in OtherActions
      THEN [ret |-> IF raw = "ok" THEN "True"
                    ELSE IF raw = "raise" THEN "raise" ELSE "False",
            handler |-> 1, clicks |-> 0]
    ELSE [ret |-> "False", handler |-> 0, clicks |-> 0]

\* ------------------------------------------------------------------------
\* Recorder data (workflow_recorder.py)
\* ------------------------------------------------------------------------
\* workflow names: sequences of characters; <<>> stands for None
Names == {<<"a", " ", "b">>, <<"a", "_", "b">>}
NoName == <<>>

\* start_time None
NoTime == -1

Devices == {"mouse", "keyboard"}

Listeners == (1..MaxSessions) \X Devices

\* what the operating system can hand to a listener of a device
Inputs(dev) ==
    IF dev = "mouse" THEN {"press", "release", "scroll"} ELSE {"a", "esc"}

\* WorkflowRecorder.__init__ ; session is the id of the listener pair the
\* state belongs to (0: none)
NewRecorder ==
    [recording |-> FALSE, workflow_name |-> NoName, start_time |-> NoTime,
     recorded_actions |-> <<>>, mouse_listener |-> 0, keyboard_listener |-> 0,
     stop_event |-> FALSE, session |-> 0]

IdleCallback == [pc |-> "idle", what |-> "", action |-> <<>>]

\* prior: the session that was armed when start_recording was called;
\* count, stamp: the actions_count and the timestamp of the file name that
\* _save_workflow has computed
IdleCaller ==
    [pc |-> "idle", r |-> 0, name |-> NoName, in_start |-> FALSE,
     prior |-> 0, result |-> "none", count |-> 0, stamp |-> 0]

\* c.isalnum() for the characters names are made of
isalnum(c) == c \in {"a", "b"}

RECURSIVE keep_safe(_)
\* "".join(c for c in name if c.isalnum() or c in (' ', '-', '_'))
keep_safe(name) ==
    IF name = <<>> THEN <<>>
    ELSE IF isalnum(Head(name)) \/ Head(name) \in {" ", "-", "_"}
         THEN <<Head(name)>> \o keep_safe(Tail(name))
         ELSE keep_safe(Tail(name))

RECURSIVE rstrip(_)
rstrip(name) ==
    IF name = <<>> THEN <<>>
    ELSE IF name[Len(name)] = " " THEN rstrip(SubSeq(name, 1, Len(name) - 1))
    ELSE name

\* _save_workflow: safe_name, blanks replaced by underscores
safe_name(name) ==
    LET kept == rstrip(keep_safe(name))
    IN  [k \in 1..Len(kept) |-> IF kept[k] = " " THEN "_" ELSE kept[k]]

\* _save_workflow: the storage key workflows/<safe_name>_<timestamp>.json,
\* the timestamp having the resolution of a second
filename(name, now) == <<safe_name(name), now>>

\* _reset_state
_reset_state(R) ==
    [R EXCEPT !.workflow_name = NoName, !.start_time = NoTime,
              !.recorded_actions = <<>>, !.recording = FALSE,
              !.stop_event = TRUE, !.session = 0]

\* ------------------------------------------------------------------------
\* The workflow file (json.dump in _save_workflow, json.load in
\* replay_workflow): the text is the sequence of its tokens
\* ------------------------------------------------------------------------
\* the numbers a workflow holds: timestamps and the count of actions
Numbers == 0..(MaxClock + MaxEvents + MaxBuffer)

\* names of keys in workflow files: what str(key).replace('Key.', '') gives
\* for the special keys, names pyautogui uses, and names in capitals
KeyNames ==
    {"ctrl_l", "ctrl_r", "alt_l", "alt_r", "shift_l", "shift_r", "cmd",
     "esc", "enter", "tab", "space", "backspace", "delete",
     "ctrl", "alt", "shift", "escape", "f5", "Enter", "ESC", "Ctrl_L", "F5"}

\* the strings the actions of a workflow hold: types and payloads
ActionStrings == {"mouse_click", "mouse_scroll", "key_press",
                  "press", "scroll", "a"} \cup KeyNames

\* timestamps written as whole seconds only
json_number_rounded(n) == ToString(0)

\* a number as json.dump writes it
json_number(n) == ToString(n)

\* the number json.load reads from a token
parse_number(token) == CHOOSE n \in Numbers : json_number(n) = token

\* a string as json.dump writes it, and as json.load reads it back
json_string(str) == "\"" \o str \o "\""

parse_string(token) == CHOOSE str \in ActionStrings : json_string(str) = token

RECURSIVE join(_)
\* the characters of a name as one string
join(name) == IF name = <<>> THEN "" ELSE Head(name) \o join(Tail(name))

RECURSIVE dump_actions(_)
\* the elements of the "actions" array, one object of three members each
dump_actions(actions) ==
    IF actions = <<>> THEN <<>>
    ELSE <<"{", "\"type\":", json_string(Head(actions).type),
           "\"key\":", json_string(Head(actions).key),
           "\"timestamp\":", json_number(Head(actions).timestamp), "}">>
         \o dump_actions(Tail(actions))

\* json.dump(workflow_data, f) for the workflow_data of _save_workflow
json_dump(name, actions) ==
    <<"{", "\"name\":", json_string(join(name)),
      "\"actions_count\":", json_number(Len(actions)),
      "\"actions\":", "[">> \o dump_actions(actions) \o <<"]", "}">>

\* json.dump(workflow_data, f) when the list workflow_data["actions"] names
\* is not as long as it was when actions_count was computed
json_dump_counted(name, actions_count, actions) ==
    <<"{", "\"name\":", json_string(join(name)),
      "\"actions_count\":", json_number(actions_count),
      "\"actions\":", "[">> \o dump_actions(actions) \o <<"]", "}">>

RECURSIVE parse_actions(_, _)
\* the array that starts at token pos, up to its closing bracket
parse_actions(text, pos) ==
    IF text[pos] = "]" THEN <<>>
    ELSE <<[type |-> parse_string(text[pos + 2]),
            key |-> parse_string(text[pos + 4]),
            timestamp |-> parse_number(text[pos + 6])]>>
         \o parse_actions(text, pos + 8)

\* json.load(f): the members replay_workflow and list_workflows read
json_load(text) ==
    [name |-> text[3],
     actions_count |-> parse_number(text[5]),
     actions |-> parse_actions(text, 8)]

\* what _save_workflow stores for the recorder state R: the workflow_data
\* it builds (with the session it belongs to, for the history) and the
\* text of the file
saved_workflow(R) ==
    [name |-> R.workflow_name,
     actions_count |-> Len(R.recorded_actions),
     actions |-> R.recorded_actions,
     session |-> R.session,
     text |-> json_dump(R.workflow_name, R.recorded_actions)]

\* no replay_workflow call is running; the fields are the locals of the call
\* (actions, k, last_timestamp, speed_multiplier), its result, and the
\* history of what it did: the sleeps it took, the inputs it emitted, the
\* actions whose pass it entered (attempted), those whose pass came to the
\* call of pyautogui (reached) and those whose pass ended in the except
\* branch (failed)
IdleReplay ==
    [pc |-> "idle", workflow_file |-> <<>>, actions |-> <<>>, k |-> 0,
     last_timestamp |-> 0, speed_multiplier |-> 1, result |-> "none",
     sleeps |-> <<>>, emitted |-> <<>>, attempted |-> <<>>, reached |-> <<>>,
     failed |-> {}]

\* no handle_failed_step call is running; the fields are the arguments and
\* locals of the call (failed_step, error_message, k: the index of the loop
\* of the strategy in progress), its result, and the history of what it
\* did: the strategies entered (tried), what the gated strategy returned
\* (gated), the passes of the offset loop and the points clicked, the
\* sleeps taken, the inputs emitted, whether the focus sequence ran to its
\* end and had an effect, the suggestions Gemini returned and those executed
IdleRecovery ==
    [pc |-> "idle", failed_step |-> <<>>, error_message |-> "", k |-> 0,
     result |-> "none", tried |-> <<>>, gated |-> "none", passes |-> <<>>,
     clicks |-> <<>>, sleeps |-> <<>>, emitted |-> <<>>,
     completed |-> FALSE, effect |-> FALSE, suggestions |-> <<>>,
     executed |-> <<>>]

\* no request uses a browser: no browser was started (browsers: per
\* browser process whether it is open and the request that started it), the
\* executor has selenium_active False and both driver handles None (0), no
\* scrape worker thread exists; pc, steps and hung belong to the thread that
\* serves /api/execute, served and returned are the history of its requests
IdleWeb ==
    [pc |-> "idle", steps |-> <<>>, hung |-> FALSE, request |-> 0,
     served |-> 0, returned |-> {}, response |-> "none",
     selenium_active |-> FALSE, selenium_driver |-> 0, scraper_driver |-> 0,
     browsers |-> <<>>, workers |-> <<>>]

\* ------------------------------------------------------------------------
\* State
\* ------------------------------------------------------------------------
VARIABLES
    current_api_key,   \* api.py global: TRUE when a key is stored
    requests,          \* /api/execute requests served so far
    pc,                \* position of the execute_automation handler
    steps,             \* the plan of the running request
    i,                 \* 1-based index of the step in the loop
    log,               \* the request's log: one entry per executed step
    execution_logs,    \* api.py global: number of entries kept
    response,          \* what the request returned
    attempt,           \* execute_step: loop variable
    error_message,     \* execute_step: str(e) of the last exception
    step_result,       \* what execute_step gave its caller
    memory,            \* MemorySystem.memory: number of saved steps
    \* history of the step in execution (not program state)
    started,           \* indices of the steps execute_step was called for
    dispatches,        \* calls of _execute_action for this step
    failures,          \* attempts of this step that failed
    handlers,          \* handler runs for this step
    clicks,            \* passes of the click loop for this step
    recoveries,        \* calls of handle_failed_step for this step
    recovery_args,     \* arguments of the last call of handle_failed_step
    recovery_answer,   \* what handle_failed_step answered for this step
    trace,             \* per logged step: what its execution did
    \* the executor object and its recorder
    current_executor,  \* api.py global: 0 is None, else the executor's id
    executors,         \* ActionExecutor objects constructed so far
    rec,               \* WorkflowRecorder objects, by the id of their executor
    sessions,          \* the listener pairs start_recording created
    callbacks,         \* per listener: the callback its thread is running
    caller,            \* the thread serving the recorder requests
    files,             \* the workflows directory: storage key -> workflow
    clock,             \* time.time() in seconds
    \* history of the recorder (not program state)
    appended,          \* per session: the events its callbacks appended
    faulted,           \* who had reset the state a callback raised on
    late,              \* who had cleared the sessions events were appended after
    \* the replayer
    replay,            \* the running replay_workflow call and what it did
    \* history of the running /api/execute request (not program state)
    planner,           \* where its plan came from: Gemini or the fallback
    stops,             \* steps started when /api/stop was first answered
    \* the error recovery and the browsers
    recovery,          \* the running handle_failed_step call and what it did
    web                \* the browsers, and the requests and workers using them

exec_vars ==
    <<current_api_key, requests, pc, steps, i, log, execution_logs, response,
      attempt, error_message, step_result, memory, started, dispatches,
      failures, handlers, clicks, recoveries, recovery_args, recovery_answer,
      trace>>

api_vars == <<current_executor, executors>>

rec_vars ==
    <<rec, sessions, callbacks, caller, files, clock, appended, faulted,
      late>>

replay_vars == <<replay>>

plan_vars == <<planner, stops>>

side_vars == <<recovery, web>>

vars == <<exec_vars, api_vars, rec_vars, replay_vars, plan_vars, side_vars>>

step_vars ==
    <<attempt, error_message, step_result, dispatches, failures, handlers,
      clicks, recoveries, recovery_args, recovery_answer>>

Plans == UNION {[1..n -> PlanActions] : n \in 0..MaxPlan}

\* ------------------------------------------------------------------------
\* The planner (assistant_bot.py get_steps_from_gemini)
\* ------------------------------------------------------------------------
\* prompts of a request: whether the JSON value is a string, and which of
\* the words create_fallback_plan looks for it holds ("cisco": cisco and
\* packet tracer without connect; "youtube": youtube and search; the
\* prompts of the connect script, of chrome and of notepad are left out)
Prompts ==
    [is_str : BOOLEAN,
     words : SUBSET {"cisco", "youtube", "calculator", "screenshot"}]

\* a prompt that is a string without any of the words
AnyPrompt == [is_str |-> TRUE, words |-> {}]

\* create_fallback_plan: prompt.lower() raises on a prompt that is no
\* string; the elif chain answers the first word it finds, and a one-second
\* wait when it finds none
create_fallback_plan(prompt) ==
    IF ~prompt.is_str THEN [raised |-> TRUE, steps |-> <<>>]
    ELSE IF "cisco" \in prompt.words
      THEN [raised |-> FALSE,
            steps |-> <<"open_application", "wait_seconds",
                        "gentle_focus_application", "take_screenshot">>]
    ELSE IF "youtube" \in prompt.words
      THEN [raised |-> FALSE,
            steps |-> <<"open_application", "wait_seconds", "navigate_url",
                        "wait_seconds", "click_element", "wait_seconds",
                        "type_text", "wait_seconds", "press_key">>]
    ELSE IF "calculator" \in prompt.words
      THEN [raised |-> FALSE, steps |-> <<"open_application", "wait_seconds">>]
    ELSE IF "screenshot" \in prompt.words
      THEN [raised |-> FALSE, steps |-> <<"take_screenshot">>]
    ELSE [raised |-> FALSE, steps |-> <<"wait_seconds">>]

\* how the call of Gemini ends: genai.configure raises, the generate_content
\* expression raises, the response is empty, its text holds no JSON object,
\* json.loads raises, or a plan is parsed (answer, possibly without steps)
GeminiOutcomes ==
    {"configure_raises", "generate_raises", "no_response", "no_json",
     "decode_error", "steps"}

\* get_steps_from_gemini: the steps Gemini gave, and on every failure (an
\* answer without steps included) what create_fallback_plan gives
get_steps_from_gemini(outcome, prompt, answer) ==
    IF outcome = "steps" /\ answer # <<>>
    THEN [raised |-> FALSE, steps |-> answer, planner |-> "gemini"]
    ELSE [raised |-> create_fallback_plan(prompt).raised,
          steps |-> create_fallback_plan(prompt).steps,
          planner |-> "failed"]

NoArgs == [step |-> "", error |-> "", attempt |-> -1]

\* the process after import, but for the workflows directory
InitIdle ==
    /\ current_api_key = FALSE
    /\ requests = 0
    /\ pc = "idle"
    /\ steps = <<>>
    /\ i = 0
    /\ log = <<>>
    /\ execution_logs = 0
    /\ response = "none"
    /\ attempt = 0
    /\ error_message = ""
    /\ step_result = "none"
    /\ memory = 0
    /\ started = <<>>
    /\ dispatches = 0
    /\ failures = 0
    /\ handlers = 0
    /\ clicks = 0
    /\ recoveries = 0
    /\ recovery_args = NoArgs
    /\ recovery_answer = "none"
    /\ trace = <<>>
    /\ current_executor = 0
    /\ executors = 0
    /\ rec = [r \in 1..MaxExecutors |-> NewRecorder]
    /\ sessions = <<>>
    /\ callbacks = [l \in Listeners |-> IdleCallback]
    /\ caller = IdleCaller
    /\ clock = 0
    /\ appended = [s \in 1..MaxSessions |-> <<>>]
    /\ faulted = {}
    /\ late = {}
    /\ replay = IdleReplay
    /\ planner = "none"
    /\ stops = -1
    /\ recovery = IdleRecovery
    /\ web = IdleWeb

\* the process after import with an empty workflows directory
Init ==
    /\ InitIdle
    /\ files = <<>>

\* ------------------------------------------------------------------------
\* API operations
\* ------------------------------------------------------------------------
\* POST /api/set-api-key
set_api_key ==
    /\ pc = "idle"
    /\ current_api_key = FALSE
    /\ UNCHANGED <<api_vars, rec_vars>>
    /\ current_api_key' = TRUE
    /\ UNCHANGED <<requests, pc, steps, i, log, execution_logs, response,
                   memory, started, trace>>
    /\ UNCHANGED step_vars
    /\ UNCHANGED replay_vars
    /\ UNCHANGED plan_vars
    /\ UNCHANGED side_vars

\* POST /api/execute up to the start of the loop: the planner gives a plan,
\* an empty plan or raises
execute_automation(outcome, prompt, answer) ==
    /\ pc = "idle"
    /\ requests < MaxRequests
    /\ UNCHANGED rec_vars
    /\ IF current_api_key /\ current_executor = 0
         THEN /\ executors < MaxExecutors
              /\ executors' = executors + 1
              /\ current_executor' = executors + 1
         ELSE UNCHANGED api_vars
    /\ requests' = requests + 1
    /\ log' = <<>>
    /\ started' = <<>>
    /\ trace' = <<>>
    /\ LET plan == get_steps_from_gemini(outcome, prompt, answer)
       IN  IF ~current_api_key
             THEN /\ response' = "API key not set"
                  /\ pc' = "idle"
                  /\ UNCHANGED <<steps, i, planner>>
             ELSE IF plan.raised
             THEN /\ response' = "Error generating steps"
                  /\ pc' = "idle"
                  /\ planner' = plan.planner
                  /\ UNCHANGED <<steps, i>>
             ELSE IF plan.steps = <<>>
             THEN /\ response' = "Could not generate execution steps"
                  /\ pc' = "idle"
                  /\ planner' = plan.planner
                  /\ UNCHANGED <<steps, i>>
             ELSE /\ response' = "none"
                  /\ steps' = plan.steps
                  /\ i' = 1
                  /\ pc' = "loop"
                  /\ planner' = plan.planner
    /\ UNCHANGED <<current_api_key, execution_logs, memory, stops>>
    /\ UNCHANGED step_vars
    /\ UNCHANGED replay_vars
    /\ UNCHANGED side_vars

\* the loop calls execute_step(step): save_step (the write of the memory
\* file is taken to succeed), max_retries, attempt 0
execute_step ==
    /\ pc = "loop"
    /\ UNCHANGED <<api_vars, rec_vars>>
    /\ i <= Len(steps)
    /\ pc' = "attempt"
    /\ memory' = memory + 1
    /\ started' = Append(started, i)
    /\ attempt' = 0
    /\ error_message' = ""
    /\ step_result' = "none"
    /\ dispatches' = 0
    /\ failures' = 0
    /\ handlers' = 0
    /\ clicks' = 0
    /\ recoveries' = 0
    /\ recovery_args' = NoArgs
    /\ recovery_answer' = "none"
    /\ UNCHANGED <<current_api_key, requests, steps, i, log, execution_logs,
                   response, trace>>
    /\ UNCHANGED replay_vars
    /\ UNCHANGED plan_vars
    /\ UNCHANGED side_vars

\* one pass of `for attempt in range(max_retries)` up to the call of the
\* recovery
attempt_step(raw, obs, msg) ==
    /\ pc = "attempt"
    /\ UNCHANGED <<api_vars, rec_vars>>
    /\ raw \in RawOutcomes(steps[i])
    /\ LET r == _execute_action(steps[i], raw, obs)
           last == (attempt = max_retries(steps[i]) - 1)
       IN  /\ dispatches' = dispatches + 1
           /\ handlers' = handlers + r.handler
           /\ clicks' = clicks + r.clicks
           /\ CASE r.ret = "True" ->
                     /\ step_result' = "True"
                     /\ pc' = "returned"
                     /\ UNCHANGED <<attempt, error_message, failures>>
                [] r.ret = "False" ->
                     /\ failures' = failures + 1
                     /\ UNCHANGED error_message
                     /\ IF last
                          THEN /\ step_result' = "False"
                               /\ pc' = "returned"
                               /\ UNCHANGED attempt
                          ELSE /\ attempt' = attempt + 1
                               /\ pc' = "attempt"
                               /\ UNCHANGED step_result
                [] r.ret = "raise" ->
                     /\ failures' = failures + 1
                     /\ error_message' = msg
                     /\ UNCHANGED step_result
                     /\ IF last
                          THEN /\ pc' = "recovery"
                               /\ UNCHANGED attempt
                          ELSE /\ attempt' = attempt + 1
                               /\ pc' = "attempt"
    /\ UNCHANGED <<current_api_key, requests, steps, i, log, execution_logs,
                   response, memory, started, recoveries, recovery_args,
                   recovery_answer, trace>>
    /\ UNCHANGED replay_vars
    /\ UNCHANGED plan_vars
    /\ UNCHANGED side_vars

\* handle_failed_step whose answer execute_step does not look at
handle_failed_step_ignored(answer) ==
    /\ pc = "recovery"
    /\ UNCHANGED <<api_vars, rec_vars>>
    /\ recoveries' = recoveries + 1
    /\ recovery_args' = [step |-> steps[i], error |-> error_message,
                         attempt |-> attempt]
    /\ step_result' = IF answer = "raise" THEN "raise" ELSE "False"
    /\ recovery_answer' = answer
    /\ pc' = "returned"
    /\ UNCHANGED <<current_api_key, requests, steps, i, log, execution_logs,
                   response, memory, started, attempt, error_message,
                   dispatches, failures, handlers, clicks, trace>>
    /\ UNCHANGED replay_vars
    /\ UNCHANGED plan_vars
    /\ UNCHANGED side_vars

\* error_recovery.handle_failed_step(step, error_message, {"attempt": attempt})
\* called from the except block of the final attempt; it answers True or
\* False, or raises (its screenshot is taken outside any try)
handle_failed_step(answer) ==
    /\ pc = "recovery"
    /\ UNCHANGED <<api_vars, rec_vars>>
    /\ recoveries' = recoveries + 1
    /\ recovery_args' = [step |-> steps[i], error |-> error_message,
                         attempt |-> attempt]
    /\ step_result' = answer
    /\ recovery_answer' = answer
    /\ pc' = "returned"
    /\ UNCHANGED <<current_api_key, requests, steps, i, log, execution_logs,
                   response, memory, started, attempt, error_message,
                   dispatches, failures, handlers, clicks, trace>>
    /\ UNCHANGED replay_vars
    /\ UNCHANGED plan_vars
    /\ UNCHANGED side_vars

\* log_step without the break on a failed step
log_step_no_break ==
    /\ pc = "returned"
    /\ UNCHANGED <<api_vars, rec_vars>>
    /\ log' = Append(log, [index |-> i, action |-> steps[i],
                           outcome |-> CASE step_result = "True" -> "Success"
                                         [] step_result = "False" -> "Failed"
                                         [] OTHER -> "Error"])
    /\ trace' = Append(trace, [dispatches |-> dispatches,
                               failures |-> failures,
                               handlers |-> handlers,
                               clicks |-> clicks,
                               recoveries |-> recoveries,
                               answer |-> recovery_answer])
    /\ IF i < Len(steps)
         THEN /\ i' = i + 1
              /\ pc' = "loop"
         ELSE /\ pc' = "finish"
              /\ UNCHANGED i
    /\ UNCHANGED <<current_api_key, requests, steps, execution_logs, response,
                   memory, started>>
    /\ UNCHANGED step_vars
    /\ UNCHANGED replay_vars
    /\ UNCHANGED plan_vars
    /\ UNCHANGED side_vars

\* log_step that leaves the loop one step early
log_step_early ==
    /\ pc = "returned"
    /\ UNCHANGED <<api_vars, rec_vars>>
    /\ log' = Append(log, [index |-> i, action |-> steps[i],
                           outcome |-> CASE step_result = "True" -> "Success"
                                         [] step_result = "False" -> "Failed"
                                         [] OTHER -> "Error"])
    /\ trace' = Append(trace, [dispatches |-> dispatches,
                               failures |-> failures,
                               handlers |-> handlers,
                               clicks |-> clicks,
                               recoveries |-> recoveries,
                               answer |-> recovery_answer])
    /\ IF step_result = "True" /\ i + 1 < Len(steps)
         THEN /\ i' = i + 1
              /\ pc' = "loop"
         ELSE /\ pc' = "finish"
              /\ UNCHANGED i
    /\ UNCHANGED <<current_api_key, requests, steps, execution_logs, response,
                   memory, started>>
    /\ UNCHANGED step_vars
    /\ UNCHANGED replay_vars
    /\ UNCHANGED plan_vars
    /\ UNCHANGED side_vars

\* the loop body after execute_step came back: log the step, break on a
\* failure or an exception, otherwise go on with the next step
log_step ==
    /\ pc = "returned"
    /\ UNCHANGED <<api_vars, rec_vars>>
    /\ log' = Append(log, [index |-> i, action |-> steps[i],
                           outcome |-> CASE step_result = "True" -> "Success"
                                         [] step_result = "False" -> "Failed"
                                         [] OTHER -> "Error"])
    /\ trace' = Append(trace, [dispatches |-> dispatches,
                               failures |-> failures,
                               handlers |-> handlers,
                               clicks |-> clicks,
                               recoveries |-> recoveries,
                               answer |-> recovery_answer])
    /\ IF step_result = "True" /\ i < Len(steps)
         THEN /\ i' = i + 1
              /\ pc' = "loop"
         ELSE /\ pc' = "finish"
              /\ UNCHANGED i
    /\ UNCHANGED <<current_api_key, requests, steps, execution_logs, response,
                   memory, started>>
    /\ UNCHANGED step_vars
    /\ UNCHANGED replay_vars
    /\ UNCHANGED plan_vars
    /\ UNCHANGED side_vars

\* after the loop: execution_logs.extend(log), the response is sent and the
\* locals of the request (steps, log, the loop variables) are gone
finish_execution ==
    /\ pc = "finish"
    /\ UNCHANGED <<api_vars, rec_vars>>
    /\ execution_logs' = execution_logs + Len(log)
    /\ response' = "executed"
    /\ pc' = "idle"
    /\ steps' = <<>>
    /\ i' = 0
    /\ log' = <<>>
    /\ started' = <<>>
    /\ trace' = <<>>
    /\ attempt' = 0
    /\ error_message' = ""
    /\ step_result' = "none"
    /\ dispatches' = 0
    /\ failures' = 0
    /\ handlers' = 0
    /\ clicks' = 0
    /\ recoveries' = 0
    /\ recovery_args' = NoArgs
    /\ recovery_answer' = "none"
    /\ planner' = "none"
    /\ stops' = -1
    /\ UNCHANGED <<current_api_key, requests, memory>>
    /\ UNCHANGED replay_vars
    /\ UNCHANGED side_vars

\* the planner is called by a request that finds a key; the prompt matters
\* when the fallback is asked and the answer when a plan was parsed
Planning == IF current_api_key THEN GeminiOutcomes ELSE {"steps"}

PlanningPrompts(outcome) == IF current_api_key THEN Prompts ELSE {AnyPrompt}

PlanningAnswers(outcome) ==
    IF current_api_key /\ outcome = "steps" THEN Plans ELSE {<<>>}

ExecNext ==
    \/ set_api_key
    \/ /\ pc = "idle"
       /\ \E outcome \in Planning :
             \E prompt \in PlanningPrompts(outcome),
                answer \in PlanningAnswers(outcome) :
                /\ (outcome = "steps" /\ prompt # AnyPrompt) => answer = <<>>
                /\ execute_automation(outcome, prompt, answer)
    \/ execute_step
    \/ /\ pc = "attempt"
       /\ \E raw \in RawOutcomes(steps[i]) :
             \E obs \in ClickRuns(steps[i]), msg \in Raised(raw) :
                attempt_step(raw, obs, msg)
    \/ \E answer \in {"True", "False", "raise"} : handle_failed_step(answer)
    \/ log_step
    \/ finish_execution

ExecSpec == Init /\ [][ExecNext]_vars

\* POST /api/stop, served by another thread while a request executes its
\* plan: the handler answers "Execution stopped" and writes nothing the
\* loop reads (the history keeps how many steps had been started)
stop_execution ==
    /\ pc \in {"loop", "attempt", "recovery", "returned"}
    /\ stops = -1
    /\ stops' = Len(started)
    /\ UNCHANGED planner
    /\ UNCHANGED <<exec_vars, api_vars, rec_vars>>
    /\ UNCHANGED replay_vars
    /\ UNCHANGED side_vars

\* the execution of plans with stop requests arriving
ExecStopNext ==
    \/ ExecNext
    \/ stop_execution

ExecStopSpec == Init /\ [][ExecStopNext]_vars


\* ------------------------------------------------------------------------
\* Recorder helpers over the state
\* ------------------------------------------------------------------------
RECURSIVE SumLen(_, _)
SumLen(f, n) == IF n = 0 THEN 0 ELSE Len(f[n]) + SumLen(f, n - 1)

\* events the callbacks appended so far, and callbacks past their guard
Recorded == SumLen(appended, MaxSessions)
InFlight == Cardinality({l \in Listeners : callbacks[l].pc # "idle"})

\* the listener thread l exists and runs
Running(l) ==
    /\ l[1] \in 1..Len(sessions)
    /\ sessions[l[1]][l[2]] = "running"

\* history: the state of session s was reset by `who`
Cleared(ss, s, who) ==
    IF s # 0 THEN [ss EXCEPT ![s].cleared = who] ELSE ss

\* StopListener that forgets to call listener.stop()
StopListener_skipped(ss, h, dev) == ss

\* listener.stop() for the handle h of device dev, when it is set and running
StopListener(ss, h, dev) ==
    IF h # 0 /\ ss[h][dev] = "running"
    THEN [ss EXCEPT ![h][dev] = "stopped"]
    ELSE ss

\* ------------------------------------------------------------------------
\* Recorder operations run by the thread serving the recorder requests
\* ------------------------------------------------------------------------
\* stop_recording, lines 67-73: the guard and the two flags
stop_begin(R) == [R EXCEPT !.recording = FALSE, !.stop_event = TRUE]

\* POST /api/workflow/record/start up to the first statement of
\* start_recording after a possible stop of the session in progress
api_start_recording(name) ==
    /\ caller.pc = "idle"
    /\ Len(sessions) < MaxSessions
    /\ IF current_executor = 0
         THEN /\ executors < MaxExecutors
              /\ executors' = executors + 1
              /\ current_executor' = executors + 1
         ELSE UNCHANGED api_vars
    /\ LET r == current_executor'
       IN  IF rec[r].recording
           THEN /\ rec' = [rec EXCEPT ![r] = stop_begin(rec[r])]
                /\ caller' = [pc |-> "stop_listeners", r |-> r, name |-> name,
                              in_start |-> TRUE, prior |-> rec[r].session,
                              result |-> "none", count |-> 0, stamp |-> 0]
           ELSE /\ UNCHANGED rec
                /\ caller' = [pc |-> "start_reset", r |-> r, name |-> name,
                              in_start |-> TRUE, prior |-> 0,
                              result |-> "none", count |-> 0, stamp |-> 0]
    /\ UNCHANGED <<sessions, callbacks, files, clock, appended, faulted, late>>
    /\ UNCHANGED exec_vars
    /\ UNCHANGED replay_vars
    /\ UNCHANGED plan_vars
    /\ UNCHANGED side_vars

\* api_stop_recording without the is_recording() / `if not self.recording`
\* guards: an idle recorder is stopped and saved like an armed one
api_stop_recording_unguarded ==
    /\ caller.pc = "idle"
    /\ current_executor # 0
    /\ LET r == current_executor
       IN  /\ rec' = [rec EXCEPT ![r] = stop_begin(rec[r])]
           /\ caller' = [pc |-> "stop_listeners", r |-> r,
                         name |-> NoName, in_start |-> FALSE,
                         prior |-> 0, result |-> "none", count |-> 0,
                         stamp |-> 0]
    /\ UNCHANGED <<sessions, callbacks, files, clock, appended, faulted, late>>
    /\ UNCHANGED <<exec_vars, api_vars>>
    /\ UNCHANGED replay_vars
    /\ UNCHANGED plan_vars
    /\ UNCHANGED side_vars

\* POST /api/workflow/record/stop up to the flags of stop_recording (the
\* handler's force_stop after stop_recording never runs: is_recording() is
\* False once stop_recording has returned)
api_stop_recording ==
    /\ caller.pc = "idle"
    /\ current_executor # 0
    /\ LET r == current_executor
       IN  IF rec[r].recording
           THEN /\ rec' = [rec EXCEPT ![r] = stop_begin(rec[r])]
                /\ caller' = [pc |-> "stop_listeners", r |-> r,
                              name |-> NoName, in_start |-> FALSE,
                              prior |-> 0, result |-> "none", count |-> 0,
                              stamp |-> 0]
           ELSE /\ UNCHANGED rec
                /\ caller' = [IdleCaller EXCEPT
                                 !.result = "No active recording to stop"]
    /\ UNCHANGED <<sessions, callbacks, files, clock, appended, faulted, late>>
    /\ UNCHANGED <<exec_vars, api_vars>>
    /\ UNCHANGED replay_vars
    /\ UNCHANGED plan_vars
    /\ UNCHANGED side_vars

\* stop_recording, lines 75-89: stop() and join(timeout=2) of both
\* listeners, then the handles are dropped.  A join returns when the
\* listener thread has left its callback, or at the timeout (toM, toK) with
\* the callback still running.
stop_listeners(toM, toK) ==
    /\ caller.pc = "stop_listeners"
    /\ LET r == caller.r
           m == rec[r].mouse_listener
           k == rec[r].keyboard_listener
           busy(h, dev) == h # 0 /\ sessions[h][dev] = "running"
                                 /\ callbacks[<<h, dev>>].pc # "idle"
       IN  /\ toM = busy(m, "mouse")
           /\ toK = busy(k, "keyboard")
           /\ sessions' = StopListener(StopListener(sessions, m, "mouse"),
                                       k, "keyboard")
           /\ rec' = [rec EXCEPT ![r].mouse_listener = 0,
                                 ![r].keyboard_listener = 0]
    /\ caller' = [caller EXCEPT !.pc = "stop_data"]
    /\ UNCHANGED <<callbacks, files, clock, appended, faulted, late>>
    /\ UNCHANGED <<exec_vars, api_vars>>
    /\ UNCHANGED replay_vars
    /\ UNCHANGED plan_vars
    /\ UNCHANGED side_vars

\* _save_workflow (called at line 94), lines 172-190: the timestamp of the
\* file name is taken and workflow_data is built: actions_count is
\* len(self.recorded_actions) now, actions is the list itself
_save_workflow_data ==
    /\ caller.pc = "stop_data"
    /\ caller' = [caller EXCEPT
                     !.pc = "stop_save",
                     !.count = Len(rec[caller.r].recorded_actions),
                     !.stamp = clock]
    /\ UNCHANGED <<rec, sessions, callbacks, files, clock, appended, faulted,
                   late>>
    /\ UNCHANGED <<exec_vars, api_vars>>
    /\ UNCHANGED replay_vars
    /\ UNCHANGED plan_vars
    /\ UNCHANGED side_vars

\* _save_workflow, lines 192-206, and the return of stop_recording: the
\* file is written (the list as it is by now, under the count taken
\* before) and the state reset, or the write fails and None is returned
\* with the state as it is
_save_workflow(ok) ==
    /\ caller.pc = "stop_save"
    /\ LET r == caller.r
           key == filename(rec[r].workflow_name, caller.stamp)
           data == [saved_workflow(rec[r]) EXCEPT
                       !.actions_count = caller.count,
                       !.text = json_dump_counted(rec[r].workflow_name,
                                                 caller.count,
                                                 rec[r].recorded_actions)]
       IN  IF ok
           THEN /\ files' = [f \in DOMAIN files \cup {key} |->
                                IF f = key THEN data ELSE files[f]]
                /\ rec' = [rec EXCEPT ![r] = _reset_state(rec[r])]
                /\ sessions' = Cleared(sessions, rec[r].session, "stop")
                /\ caller' = IF caller.in_start
                             THEN [caller EXCEPT !.pc = "start_reset"]
                             ELSE [IdleCaller EXCEPT !.result = "saved"]
           ELSE /\ UNCHANGED <<files, rec, sessions>>
                /\ caller' = IF caller.in_start
                             THEN [caller EXCEPT !.pc = "start_reset"]
                             ELSE [IdleCaller EXCEPT !.result = "None"]
    /\ UNCHANGED <<callbacks, clock, appended, faulted, late>>
    /\ UNCHANGED <<exec_vars, api_vars>>
    /\ UNCHANGED replay_vars
    /\ UNCHANGED plan_vars
    /\ UNCHANGED side_vars

\* start_recording, lines 31-36: the state of the new session
start_reset ==
    /\ caller.pc = "start_reset"
    /\ LET r == caller.r
       IN  rec' = [rec EXCEPT ![r].recording = TRUE,
                              ![r].workflow_name = caller.name,
                              ![r].start_time = clock,
                              ![r].recorded_actions = <<>>,
                              ![r].stop_event = FALSE,
                              ![r].session = Len(sessions) + 1]
    /\ sessions' = Append(sessions, [owner |-> caller.r,
                                     mouse |-> "unstarted",
                                     keyboard |-> "unstarted",
                                     cleared |-> "restart"])
    /\ caller' = [caller EXCEPT !.pc = "start_listeners"]
    /\ UNCHANGED <<callbacks, files, clock, appended, faulted, late>>
    /\ UNCHANGED <<exec_vars, api_vars>>
    /\ UNCHANGED replay_vars
    /\ UNCHANGED plan_vars
    /\ UNCHANGED side_vars

\* start_recording, lines 38-63: both listeners are created and started and
\* True is returned, or a start() raises and the except block returns False
start_listeners(outcome) ==
    /\ caller.pc = "start_listeners"
    /\ LET r == caller.r
           s == Len(sessions)
       IN  /\ sessions' =
                 [sessions EXCEPT
                    ![s].mouse = IF outcome = "mouse_start_raises"
                                 THEN "unstarted" ELSE "running",
                    ![s].keyboard = IF outcome = "ok"
                                    THEN "running" ELSE "unstarted"]
           /\ rec' = [rec EXCEPT ![r].mouse_listener = s,
                                 ![r].keyboard_listener = s,
                                 ![r].recording =
                                    IF outcome = "ok" THEN @ ELSE FALSE]
    /\ caller' = [IdleCaller EXCEPT
                     !.result = IF outcome = "ok" THEN "True" ELSE "False"]
    /\ UNCHANGED <<callbacks, files, clock, appended, faulted, late>>
    /\ UNCHANGED <<exec_vars, api_vars>>
    /\ UNCHANGED replay_vars
    /\ UNCHANGED plan_vars
    /\ UNCHANGED side_vars

\* force_stop, reached through POST /api/workflow/record/force-stop.  Each
\* listener is stopped inside its own try: when stop() raises
\* (mouse_raises, keyboard_raises) the `except: pass` skips the statement
\* that drops the handle, and the listener is not stopped.
force_stop(mouse_raises, keyboard_raises) ==
    /\ caller.pc = "idle"
    /\ current_executor # 0
    /\ LET r == current_executor
           m == rec[r].mouse_listener
           k == rec[r].keyboard_listener
       IN  /\ mouse_raises => m # 0
           /\ keyboard_raises => k # 0
           /\ sessions' = Cleared(
                              StopListener(
                                 StopListener(sessions,
                                              IF mouse_raises THEN 0 ELSE m,
                                              "mouse"),
                                 IF keyboard_raises THEN 0 ELSE k, "keyboard"),
                              rec[r].session, "force_stop")
           /\ rec' = [rec EXCEPT ![r] =
                        [_reset_state(rec[r]) EXCEPT
                            !.mouse_listener = IF mouse_raises THEN m ELSE 0,
                            !.keyboard_listener =
                                IF keyboard_raises THEN k ELSE 0]]
    /\ caller' = [IdleCaller EXCEPT !.result = "Recording force stopped"]
    /\ UNCHANGED <<callbacks, files, clock, appended, faulted, late>>
    /\ UNCHANGED <<exec_vars, api_vars>>
    /\ UNCHANGED replay_vars
    /\ UNCHANGED plan_vars
    /\ UNCHANGED side_vars

\* POST /api/clear-api-key: the key and the executor are dropped; the
\* recorder of the dropped executor is not told
clear_api_key ==
    /\ caller.pc = "idle"
    /\ pc = "idle"
    /\ current_executor # 0
    /\ current_api_key' = FALSE
    /\ current_executor' = 0
    /\ UNCHANGED <<executors, rec_vars>>
    /\ UNCHANGED <<requests, pc, steps, i, log, execution_logs, response,
                   memory, started, trace>>
    /\ UNCHANGED step_vars
    /\ UNCHANGED replay_vars
    /\ UNCHANGED plan_vars
    /\ UNCHANGED side_vars

\* time passes
tick ==
    /\ clock < MaxClock
    /\ clock' = clock + 1
    /\ UNCHANGED <<rec, sessions, callbacks, caller, files, appended,
                   faulted, late>>
    /\ UNCHANGED <<exec_vars, api_vars>>
    /\ UNCHANGED replay_vars
    /\ UNCHANGED plan_vars
    /\ UNCHANGED side_vars

\* ------------------------------------------------------------------------
\* Listener callbacks (one thread per listener)
\* ------------------------------------------------------------------------
\* the type field of the action a callback records
ActionType(dev, what) ==
    IF dev = "keyboard" THEN "key_press"
    ELSE IF what = "scroll" THEN "mouse_scroll" ELSE "mouse_click"

\* _on_mouse_click / _on_mouse_scroll / _on_key_press, entry: the guard
\* `not self.recording or self._stop_event.is_set()`, the pressed test of
\* the click callback and the ESC test of the key callback
_on_input(l, what) ==
    /\ Running(l)
    /\ callbacks[l].pc = "idle"
    /\ Recorded + InFlight < MaxEvents
    /\ what \in Inputs(l[2])
    /\ LET R == rec[sessions[l[1]].owner]
       IN  callbacks' =
             [callbacks EXCEPT ![l] =
                IF ~R.recording \/ R.stop_event THEN IdleCallback
                ELSE IF what = "release" THEN IdleCallback
                ELSE IF what = "esc"
                     THEN [pc |-> "esc", what |-> what, action |-> <<>>]
                ELSE [pc |-> "build", what |-> what, action |-> <<>>]]
    /\ UNCHANGED <<rec, sessions, caller, files, clock, appended, faulted,
                   late>>
    /\ UNCHANGED <<exec_vars, api_vars>>
    /\ UNCHANGED replay_vars
    /\ UNCHANGED plan_vars
    /\ UNCHANGED side_vars

\* the callback builds its action: time.time() - self.start_time raises when
\* start_time is None; the key callback swallows that (except: pass), the
\* mouse callbacks let it out
_on_input_build(l) ==
    /\ callbacks[l].pc = "build"
    /\ LET R == rec[sessions[l[1]].owner]
       IN  IF R.start_time = NoTime
           THEN /\ callbacks' = [callbacks EXCEPT ![l] = IdleCallback]
                /\ faulted' = IF l[2] = "mouse"
                                THEN faulted \cup {sessions[l[1]].cleared}
                                ELSE faulted
           ELSE /\ callbacks' =
                     [callbacks EXCEPT ![l].pc = "append",
                        ![l].action =
                           <<[type |-> ActionType(l[2], callbacks[l].what),
                              key |-> callbacks[l].what,
                              timestamp |-> clock - R.start_time,
                              session |-> l[1]]>>]
                /\ UNCHANGED faulted
    /\ UNCHANGED <<rec, sessions, caller, files, clock, appended, late>>
    /\ UNCHANGED <<exec_vars, api_vars>>
    /\ UNCHANGED replay_vars
    /\ UNCHANGED plan_vars
    /\ UNCHANGED side_vars

\* self.recorded_actions.append(action)
_on_input_append(l) ==
    /\ callbacks[l].pc = "append"
    /\ LET r == sessions[l[1]].owner
       IN  /\ rec' = [rec EXCEPT ![r].recorded_actions =
                         rec[r].recorded_actions \o callbacks[l].action]
           /\ late' = IF rec[r].session # l[1]
                        THEN late \cup {sessions[l[1]].cleared}
                        ELSE late
    /\ appended' = [appended EXCEPT ![l[1]] = @ \o callbacks[l].action]
    /\ callbacks' = [callbacks EXCEPT ![l] = IdleCallback]
    /\ UNCHANGED <<sessions, caller, files, clock, faulted>>
    /\ UNCHANGED <<exec_vars, api_vars>>
    /\ UNCHANGED replay_vars
    /\ UNCHANGED plan_vars
    /\ UNCHANGED side_vars

\* _on_key_press on ESC: stop_recording() runs on the keyboard listener's
\* own thread.  Joining the own thread raises, so the except block of
\* stop_recording drops the handles and returns None before anything is
\* saved; when the recorder's keyboard handle is another listener (or none)
\* stop_recording runs through to _save_workflow.
_on_key_press_esc(l, toM, ok) ==
    /\ callbacks[l].pc = "esc"
    /\ callbacks' = [callbacks EXCEPT ![l] = IdleCallback]
    /\ LET r == sessions[l[1]].owner
           m == rec[r].mouse_listener
           k == rec[r].keyboard_listener
           busy == m # 0 /\ sessions[m]["mouse"] = "running"
                         /\ callbacks[<<m, "mouse">>].pc # "idle"
           own == k = l[1] /\ sessions[k]["keyboard"] = "running"
           key == filename(rec[r].workflow_name, clock)
           data == saved_workflow(rec[r])
           stopped == [stop_begin(rec[r]) EXCEPT !.mouse_listener = 0,
                                                 !.keyboard_listener = 0]
       IN  IF ~rec[r].recording
           THEN /\ toM = FALSE
                /\ ok = FALSE
                /\ UNCHANGED <<rec, sessions, files>>
           ELSE /\ toM = busy
                /\ sessions' =
                      LET ss == StopListener(StopListener(sessions, m, "mouse"),
                                             k, "keyboard")
                      IN  IF own \/ ~ok THEN ss
                          ELSE Cleared(ss, rec[r].session, "stop")
                /\ IF own \/ ~ok
                     THEN /\ own => ~ok
                          /\ rec' = [rec EXCEPT ![r] = stopped]
                          /\ UNCHANGED files
                     ELSE /\ rec' = [rec EXCEPT ![r] = _reset_state(stopped)]
                          /\ files' = [f \in DOMAIN files \cup {key} |->
                                          IF f = key THEN data ELSE files[f]]
    /\ UNCHANGED <<caller, clock, appended, faulted, late>>
    /\ UNCHANGED <<exec_vars, api_vars>>
    /\ UNCHANGED replay_vars
    /\ UNCHANGED plan_vars
    /\ UNCHANGED side_vars

RecNext ==
    \/ \E name \in Names : api_start_recording(name)
    \/ api_stop_recording
    \/ \E toM, toK \in BOOLEAN : stop_listeners(toM, toK)
    \/ _save_workflow_data
    \/ \E ok \in BOOLEAN : _save_workflow(ok)
    \/ start_reset
    \/ \E outcome \in {"ok", "mouse_start_raises", "keyboard_start_raises"} :
          start_listeners(outcome)
    \/ \E mouse_raises, keyboard_raises \in BOOLEAN :
          force_stop(mouse_raises, keyboard_raises)
    \/ clear_api_key
    \/ tick
    \/ \E l \in Listeners : \E what \in Inputs(l[2]) : _on_input(l, what)
    \/ \E l \in Listeners : _on_input_build(l)
    \/ \E l \in Listeners : _on_input_append(l)
    \/ \E l \in Listeners : \E toM, ok \in BOOLEAN : _on_key_press_esc(l, toM, ok)

RecSpec == Init /\ [][RecNext]_vars

\* starts and stops of one recorder with its listener threads: the key is
\* never cleared, so the executor built by the first start is the only one,
\* no emergency teardown is requested, and every session is started under
\* the same name and within one tick of the clock
StopNext ==
    \/ api_start_recording(<<"a", " ", "b">>)
    \/ api_stop_recording
    \/ \E toM, toK \in BOOLEAN : stop_listeners(toM, toK)
    \/ _save_workflow_data
    \/ \E ok \in BOOLEAN : _save_workflow(ok)
    \/ start_reset
    \/ \E outcome \in {"ok", "mouse_start_raises", "keyboard_start_raises"} :
          start_listeners(outcome)
    \/ \E l \in Listeners : \E what \in Inputs(l[2]) : _on_input(l, what)
    \/ \E l \in Listeners : _on_input_build(l)
    \/ \E l \in Listeners : _on_input_append(l)
    \/ \E l \in Listeners : \E toM, ok \in BOOLEAN : _on_key_press_esc(l, toM, ok)

StopSpec == Init /\ [][StopNext]_vars

\* ------------------------------------------------------------------------
\* The replayer (workflow_recorder.py replay_workflow)
\* ------------------------------------------------------------------------
\* a workflow identifier: the path stop_recording returns (dir is TRUE: it
\* starts with "workflows/") or the bare file name list_workflows returns
missing_file == <<<<"x">>, 0>>

WorkflowIds == [dir : BOOLEAN, key : DOMAIN files \cup {missing_file}]

\* replay_workflow, lines 289-290: the directory is put in front of a bare
\* file name
resolve(workflow_file) == [workflow_file EXCEPT !.dir = TRUE]

\* speed multipliers a caller passes
Speeds == {0, 1, 2}

\* the settle sleep before the first action: time.sleep(2)
settle_delay == 2

\* the longest sleep between two actions: min(delay, 2.0)
delay_cap == 2

\* a replay_workflow that takes the settle sleep before it looks at the
\* actions
replay_workflow_settles(workflow_file, speed_multiplier, load_raises) ==
    /\ replay.pc = "idle"
    /\ load_raises => resolve(workflow_file).key \in DOMAIN files
    /\ LET path == resolve(workflow_file)
       IN  IF path.key \notin DOMAIN files \/ load_raises
           THEN replay' = [IdleReplay EXCEPT !.workflow_file = path.key,
                                             !.result = "False"]
           ELSE LET actions == json_load(files[path.key].text).actions
                IN  replay' = [IdleReplay EXCEPT
                                  !.pc = IF actions = <<>> THEN "idle"
                                         ELSE "loop",
                                  !.result = IF actions = <<>> THEN "True"
                                             ELSE "none",
                                  !.workflow_file = path.key,
                                  !.actions = actions,
                                  !.k = IF actions = <<>> THEN 0 ELSE 1,
                                  !.speed_multiplier =
                                      IF actions = <<>> THEN 1
                                      ELSE speed_multiplier,
                                  !.sleeps = <<[num |-> settle_delay,
                                                den |-> 1]>>]
    /\ UNCHANGED <<exec_vars, api_vars, rec_vars>>
    /\ UNCHANGED plan_vars
    /\ UNCHANGED side_vars

\* a replay_workflow without the test of os.path.exists and without the
\* outer try: the exception of open or json.load reaches the caller
replay_workflow_unguarded(workflow_file, speed_multiplier, load_raises) ==
    /\ replay.pc = "idle"
    /\ load_raises => resolve(workflow_file).key \in DOMAIN files
    /\ LET path == resolve(workflow_file)
       IN  IF path.key \notin DOMAIN files \/ load_raises
           THEN replay' = [IdleReplay EXCEPT !.workflow_file = path.key,
                                             !.result = "raised"]
           ELSE LET actions == json_load(files[path.key].text).actions
                IN  IF actions = <<>>
                    THEN replay' = [IdleReplay EXCEPT
                                       !.workflow_file = path.key,
                                       !.result = "True"]
                    ELSE replay' = [IdleReplay EXCEPT
                                       !.pc = "loop",
                                       !.workflow_file = path.key,
                                       !.actions = actions,
                                       !.k = 1,
                                       !.speed_multiplier = speed_multiplier,
                                       !.sleeps = <<[num |-> settle_delay,
                                                     den |-> 1]>>]
    /\ UNCHANGED <<exec_vars, api_vars, rec_vars>>
    /\ UNCHANGED plan_vars
    /\ UNCHANGED side_vars

\* replay_workflow up to the loop: the file is looked up and loaded; a
\* missing file gives False, and so does a file that open or json.load
\* raises on (load_raises; the outer except of lines 365-367); a workflow
\* without actions gives True at once, otherwise the settle sleep is taken
replay_workflow(workflow_file, speed_multiplier, load_raises) ==
    /\ replay.pc = "idle"
    /\ load_raises => resolve(workflow_file).key \in DOMAIN files
    /\ LET path == resolve(workflow_file)
       IN  IF path.key \notin DOMAIN files \/ load_raises
           THEN replay' = [IdleReplay EXCEPT !.workflow_file = path.key,
                                             !.result = "False"]
           ELSE LET workflow_data == json_load(files[path.key].text)
                    actions == workflow_data.actions
                IN  IF actions = <<>>
                    THEN replay' = [IdleReplay EXCEPT
                                       !.workflow_file = path.key,
                                       !.result = "True"]
                    ELSE replay' = [IdleReplay EXCEPT
                                       !.pc = "loop",
                                       !.workflow_file = path.key,
                                       !.actions = actions,
                                       !.k = 1,
                                       !.speed_multiplier = speed_multiplier,
                                       !.sleeps = <<[num |-> settle_delay,
                                                     den |-> 1]>>]
    /\ UNCHANGED <<exec_vars, api_vars, rec_vars>>
    /\ UNCHANGED plan_vars
    /\ UNCHANGED side_vars

\* key.lower() for the names of keys
lower(key) ==
    CASE key = "Enter" -> "enter"
      [] key = "ESC" -> "esc"
      [] key = "Ctrl_L" -> "ctrl_l"
      [] key = "F5" -> "f5"
      [] OTHER -> key

\* a mapping in which cmd stands for the left control key
key_mapping_chained ==
    [k \in {"ctrl_l", "ctrl_r", "alt_l", "alt_r", "shift_l", "shift_r",
            "cmd", "esc", "enter", "tab", "space", "backspace", "delete"} |->
        CASE k \in {"ctrl_l", "ctrl_r"} -> "ctrl"
          [] k \in {"alt_l", "alt_r"} -> "alt"
          [] k \in {"shift_l", "shift_r"} -> "shift"
          [] k = "cmd" -> "ctrl_l"
          [] k = "esc" -> "escape"
          [] OTHER -> k]

\* replay_workflow, lines 338-346: the dict key_mapping
key_mapping ==
    [k \in {"ctrl_l", "ctrl_r", "alt_l", "alt_r", "shift_l", "shift_r",
            "cmd", "esc", "enter", "tab", "space", "backspace", "delete"} |->
        CASE k \in {"ctrl_l", "ctrl_r"} -> "ctrl"
          [] k \in {"alt_l", "alt_r"} -> "alt"
          [] k \in {"shift_l", "shift_r"} -> "shift"
          [] k = "esc" -> "escape"
          [] OTHER -> k]

\* line 347: key_mapping.get(key.lower(), key)
mapped_key(key) ==
    IF lower(key) \in DOMAIN key_mapping THEN key_mapping[lower(key)]
    ELSE key

\* the input pyautogui is asked for by an action of a type: a key of one
\* character is written, another key is pressed under its mapped name
Emitted(action) ==
    IF action.type = "mouse_click" THEN <<[call |-> "click"]>>
    ELSE IF action.type = "key_press"
         THEN IF Len(action.key) = 1
              THEN <<[call |-> "write", key |-> action.key]>>
              ELSE <<[call |-> "press", key |-> mapped_key(action.key)]>>
    ELSE IF action.type = "mouse_scroll" THEN <<[call |-> "scroll"]>>
    ELSE <<>>

\* a loop that gives up at the first action that raises
replay_action_aborts(raises) ==
    /\ replay.pc = "loop"
    /\ LET action == replay.actions[replay.k]
           speed == replay.speed_multiplier
           done == speed # 0 /\ ~raises
           last == replay.k = Len(replay.actions)
       IN  replay' = [replay EXCEPT
                         !.emitted = IF done THEN @ \o Emitted(action) ELSE @,
                         !.last_timestamp =
                             IF done THEN action.timestamp ELSE @,
                         !.attempted = Append(@, replay.k),
                         !.reached = IF speed = 0 THEN @
                                     ELSE Append(@, replay.k),
                         !.failed = IF done THEN @ ELSE @ \cup {replay.k},
                         !.k = IF last \/ ~done THEN @ ELSE @ + 1,
                         !.pc = IF last \/ ~done THEN "idle" ELSE "loop",
                         !.result = IF ~done THEN "False"
                                    ELSE IF last THEN "True" ELSE "none"]
    /\ UNCHANGED <<exec_vars, api_vars, rec_vars>>
    /\ UNCHANGED plan_vars
    /\ UNCHANGED side_vars

\* one pass of the loop over the actions: the delay (a division by the
\* speed multiplier), the sleep capped at two seconds, the input; an
\* exception (the division by zero, or pyautogui raising) skips the rest of
\* the pass.  After the last pass True is returned.
replay_action(raises) ==
    /\ replay.pc = "loop"
    /\ LET action == replay.actions[replay.k]
           speed == replay.speed_multiplier
           diff == action.timestamp - replay.last_timestamp
           slept == IF speed = 0 \/ diff <= 0 THEN <<>>
                    ELSE IF diff > delay_cap * speed
                         THEN <<[num |-> delay_cap, den |-> 1]>>
                    ELSE <<[num |-> diff, den |-> speed]>>
           done == speed # 0 /\ ~raises
           last == replay.k = Len(replay.actions)
       IN  replay' = [replay EXCEPT
                         !.sleeps = @ \o slept,
                         !.emitted = IF done THEN @ \o Emitted(action) ELSE @,
                         !.last_timestamp =
                             IF done THEN action.timestamp ELSE @,
                         !.attempted = Append(@, replay.k),
                         !.reached = IF speed = 0 THEN @
                                     ELSE Append(@, replay.k),
                         !.failed = IF done THEN @ ELSE @ \cup {replay.k},
                         !.k = IF last THEN @ ELSE @ + 1,
                         !.pc = IF last THEN "idle" ELSE "loop",
                         !.result = IF last THEN "True" ELSE "none"]
    /\ UNCHANGED <<exec_vars, api_vars, rec_vars>>
    /\ UNCHANGED plan_vars
    /\ UNCHANGED side_vars

\* the recorder states a stop can save: a named session with its buffer
Events ==
    {[type |-> ActionType(l[2], what), key |-> what, timestamp |-> t,
      session |-> 1] :
        l \in {<<1, "mouse">>, <<1, "keyboard">>},
        what \in {"press", "scroll", "a"}, t \in 0..MaxClock} \cap
    {e \in [type : ActionStrings, key : ActionStrings,
            timestamp : 0..MaxClock, session : {1}] :
        e.key \in (IF e.type = "key_press" THEN {"a"}
                   ELSE IF e.type = "mouse_scroll" THEN {"scroll"}
                   ELSE {"press"})}

Buffers ==
    {b \in UNION {[1..n -> Events] : n \in 0..MaxBuffer} :
        \A k \in 1..(Len(b) - 1) : b[k].timestamp <= b[k + 1].timestamp}

\* the workflows directories one saved session leaves behind, and the
\* empty one
StoredFiles ==
    {<<>>} \cup
    {[f \in {filename(name, now)} |->
         saved_workflow([NewRecorder EXCEPT !.workflow_name = name,
                                           !.start_time = 0,
                                           !.recorded_actions = b,
                                           !.session = 1])] :
        name \in Names, now \in 0..MaxClock, b \in Buffers}

\* replays over what a stop has stored
ReplayInit ==
    /\ InitIdle
    /\ files \in StoredFiles

ReplayNext ==
    \/ \E workflow_file \in WorkflowIds, speed_multiplier \in Speeds,
          load_raises \in BOOLEAN :
          replay_workflow(workflow_file, speed_multiplier, load_raises)
    \/ \E raises \in BOOLEAN : replay_action(raises)

ReplaySpec == ReplayInit /\ [][ReplayNext]_vars

\* the workflows directories that hold one workflow of one key press (a
\* recorded one, or one written by hand: any name of a key)
KeyFiles ==
    {[f \in {filename(<<"a", "_", "b">>, 0)} |->
         saved_workflow([NewRecorder EXCEPT
                            !.workflow_name = <<"a", "_", "b">>,
                            !.start_time = 0,
                            !.recorded_actions =
                                <<[type |-> "key_press", key |-> key,
                                   timestamp |-> t, session |-> 1]>>,
                            !.session = 1])] :
        key \in KeyNames \cup {"a"}, t \in 0..MaxClock}

KeyInit ==
    /\ InitIdle
    /\ files \in KeyFiles

\* replays of workflows of key presses
KeySpec == KeyInit /\ [][ReplayNext]_vars

\* ------------------------------------------------------------------------
\* The error recovery (error_recovery.py SmartErrorRecovery)
\* ------------------------------------------------------------------------
\* points a failed click step names; <<0, 0>> is also what
\* failed_step.get('x', 0), failed_step.get('y', 0) give without x and y
Points == {<<0, 0>>, <<100, 200>>}

\* the failed steps handed to the recovery: the kinds the gates and the
\* retry look at, and one other kind
RecoveryActions ==
    {"click_desktop_coordinates", "click_element", "type_text",
     "analyze_screen"}

FailedSteps == [action : RecoveryActions, point : Points]

\* str(e) of the exception that failed the step
RecoveryMessages == ErrorMessages \cup {"Element not found"}

\* word in error_message.lower(), for the words the gates look for
in_lower(word, message) ==
    word \in (CASE message = "timeout" -> {"timeout"}
                [] message = "window focus lost" -> {"window", "focus"}
                [] message = "Element not found" -> {"not found"}
                [] OTHER -> {})

\* the offsets with the two first ones exchanged
offsets_exchanged ==
    <<<<10, 0>>, <<0, 0>>, <<-10, 0>>, <<0, 10>>, <<0, -10>>, <<20, 20>>,
      <<-20, -20>>>>

\* _recover_click_coordinates: the offsets in the order of the list
offsets ==
    <<<<0, 0>>, <<10, 0>>, <<-10, 0>>, <<0, 10>>, <<0, -10>>, <<20, 20>>,
      <<-20, -20>>>>

\* screenshots: arrays of four bytes
Screens == {<<0, 0, 0, 0>>, <<1, 0, 0, 0>>, <<9, 9, 9, 9>>}

RECURSIVE sum_abs_diff(_, _, _)
\* np.sum(np.abs(before_array - after_array)) on arrays of unsigned bytes:
\* the difference wraps modulo 256 and abs leaves it as it is
sum_abs_diff(before_array, after_array, n) ==
    IF n = 0 THEN 0
    ELSE ((before_array[n] - after_array[n]) % 256)
         + sum_abs_diff(before_array, after_array, n - 1)

\* _detect_screen_change: diff / (size * 255) * 100 > threshold, with the
\* threshold of 0.1 (both sides multiplied by 10 * size * 255)
_detect_screen_change(before_img, after_img) ==
    sum_abs_diff(before_img, after_img, Len(before_img)) * 1000
        > Len(before_img) * 255

\* what one pass of the offset loop meets: an exception of the screenshot
\* before the click, of the click, or of the screenshot after it, or none,
\* and the two screenshots
ClickPasses ==
    [raises : {"before", "click", "after"},
     before : {<<0, 0, 0, 0>>}, after : {<<0, 0, 0, 0>>}]
    \cup [raises : {"none"}, before : Screens, after : Screens]

\* the pyautogui calls of _recover_window_focus, in order
focus_sequence ==
    <<"keyDown alt", "press tab", "keyUp alt", "click 960 1060", "press win",
      "press escape">>

\* _recover_wait_and_retry: wait_times
wait_times == <<2, 5, 10>>

\* a chain that goes on to the AI-powered recovery after a success as well
after_strategy_goes_on(recovery_success) ==
    [pc |-> "ai", result |-> "none"]

\* line 47: a strategy that returned True ends the call with True, after
\* any other the AI-powered recovery is next
after_strategy(recovery_success) ==
    IF recovery_success
    THEN [pc |-> "idle", result |-> "True"]
    ELSE [pc |-> "ai", result |-> "none"]

\* a chain of gates that looks at the words of the message before it looks
\* at the kind of the step
handle_failed_step_gates_by_message(failed_step, message, screenshot_raises) ==
    /\ recovery.pc = "idle"
    /\ LET call == [IdleRecovery EXCEPT !.failed_step = failed_step,
                                        !.error_message = message]
       IN  recovery' =
             IF screenshot_raises
               THEN [call EXCEPT !.result = "raise"]
             ELSE IF in_lower("focus", message)
                     \/ in_lower("window", message)
               THEN [call EXCEPT !.pc = "focus", !.tried = <<"focus">>]
             ELSE IF in_lower("timeout", message)
                     \/ in_lower("not found", message)
               THEN [call EXCEPT !.pc = "wait", !.k = 1,
                                 !.tried = <<"wait">>]
             ELSE IF failed_step.action = "click_desktop_coordinates"
               THEN [call EXCEPT !.pc = "coordinates", !.k = 1,
                                 !.tried = <<"coordinates">>]
             ELSE IF failed_step.action = "click_element"
               THEN [call EXCEPT !.pc = "selectors",
                                 !.tried = <<"selectors">>]
             ELSE [call EXCEPT !.pc = "ai"]
    /\ UNCHANGED <<exec_vars, api_vars, rec_vars, replay_vars, plan_vars, web>>

\* handle_failed_step up to the call of a strategy: the screenshot (outside
\* any try: its exception leaves the call), the analysis of the screen, and
\* the if/elif chain of the gates
handle_failed_step_gates(failed_step, message, screenshot_raises) ==
    /\ recovery.pc = "idle"
    /\ LET call == [IdleRecovery EXCEPT !.failed_step = failed_step,
                                        !.error_message = message]
       IN  recovery' =
             IF screenshot_raises
               THEN [call EXCEPT !.result = "raise"]
             ELSE IF failed_step.action = "click_desktop_coordinates"
               THEN [call EXCEPT !.pc = "coordinates", !.k = 1,
                                 !.tried = <<"coordinates">>]
             ELSE IF in_lower("focus", message)
                     \/ in_lower("window", message)
               THEN [call EXCEPT !.pc = "focus", !.tried = <<"focus">>]
             ELSE IF in_lower("timeout", message)
                     \/ in_lower("not found", message)
               THEN [call EXCEPT !.pc = "wait", !.k = 1,
                                 !.tried = <<"wait">>]
             ELSE IF failed_step.action = "click_element"
               THEN [call EXCEPT !.pc = "selectors",
                                 !.tried = <<"selectors">>]
             ELSE [call EXCEPT !.pc = "ai"]
    /\ UNCHANGED <<exec_vars, api_vars, rec_vars, replay_vars, plan_vars, web>>

\* one pass of the loop of _recover_click_coordinates: the click at the
\* original point moved by offset k, and the comparison of the screenshots
\* taken before and after it; an exception skips the rest of the pass.  A
\* registered change returns True, the end of the list returns False.
_recover_click_coordinates(pass) ==
    /\ recovery.pc = "coordinates"
    /\ LET k == recovery.k
           original == recovery.failed_step.point
           new == <<original[1] + offsets[k][1], original[2] + offsets[k][2]>>
           clicked == pass.raises \in {"none", "after"}
           registered == /\ pass.raises = "none"
                         /\ _detect_screen_change(pass.before, pass.after)
           over == registered \/ k = Len(offsets)
           next == after_strategy(registered)
       IN  recovery' =
             [recovery EXCEPT
                !.passes = Append(@, [k |-> k, clicked |-> clicked,
                                      registered |-> registered]),
                !.clicks = IF clicked THEN Append(@, new) ELSE @,
                !.sleeps = IF clicked THEN Append(@, [num |-> 1, den |-> 2])
                           ELSE @,
                !.k = IF over THEN @ ELSE @ + 1,
                !.gated = IF ~over THEN @
                          ELSE IF registered THEN "True" ELSE "False",
                !.pc = IF over THEN next.pc ELSE @,
                !.result = IF over THEN next.result ELSE @]
    /\ UNCHANGED <<exec_vars, api_vars, rec_vars, replay_vars, plan_vars, web>>

\* a focus recovery that answers what its sequence achieved
_recover_window_focus_verified(raises_at, effect) ==
    /\ recovery.pc = "focus"
    /\ raises_at # 0 => ~effect
    /\ LET next == after_strategy(effect)
       IN  recovery' =
             [recovery EXCEPT
                !.emitted = IF raises_at = 0 THEN focus_sequence
                            ELSE SubSeq(focus_sequence, 1, raises_at - 1),
                !.completed = (raises_at = 0),
                !.effect = effect,
                !.gated = IF effect THEN "True" ELSE "False",
                !.pc = next.pc,
                !.result = next.result]
    /\ UNCHANGED <<exec_vars, api_vars, rec_vars, replay_vars, plan_vars, web>>

\* _recover_window_focus: the key and click sequence; raises_at is the call
\* of the sequence that raises (0: none).  True is returned at the end of
\* the sequence, whatever it did to the windows (effect), False from the
\* except block.
_recover_window_focus(raises_at, effect) ==
    /\ recovery.pc = "focus"
    /\ raises_at # 0 => ~effect
    /\ LET next == after_strategy(raises_at = 0)
       IN  recovery' =
             [recovery EXCEPT
                !.emitted = IF raises_at = 0 THEN focus_sequence
                            ELSE SubSeq(focus_sequence, 1, raises_at - 1),
                !.completed = (raises_at = 0),
                !.effect = effect,
                !.gated = IF raises_at = 0 THEN "True" ELSE "False",
                !.pc = next.pc,
                !.result = next.result]
    /\ UNCHANGED <<exec_vars, api_vars, rec_vars, replay_vars, plan_vars, web>>

\* what the retry of _recover_wait_and_retry asks of pyautogui for a step
Retried(failed_step) ==
    IF failed_step.action = "click_desktop_coordinates"
      THEN <<"click">>
    ELSE IF failed_step.action = "type_text" THEN <<"typewrite">>
    ELSE IF failed_step.action = "press_key" THEN <<"press">>
    ELSE <<>>

\* one pass of the loop of _recover_wait_and_retry: the sleep, then the
\* retry of the kinds it knows; True unless the retry raises, False after
\* the third pass that raised
_recover_wait_and_retry(raises) ==
    /\ recovery.pc = "wait"
    /\ raises => Retried(recovery.failed_step) # <<>>
    /\ LET k == recovery.k
           over == ~raises \/ k = Len(wait_times)
           next == after_strategy(~raises)
       IN  recovery' =
             [recovery EXCEPT
                !.sleeps = Append(@, [num |-> wait_times[k], den |-> 1]),
                !.emitted = IF raises THEN @
                            ELSE @ \o Retried(recovery.failed_step),
                !.k = IF over THEN @ ELSE @ + 1,
                !.gated = IF ~over THEN @
                          ELSE IF raises THEN "False" ELSE "True",
                !.pc = IF over THEN next.pc ELSE @,
                !.result = IF over THEN next.result ELSE @]
    /\ UNCHANGED <<exec_vars, api_vars, rec_vars, replay_vars, plan_vars, web>>

\* _recover_alternative_selectors: the first selector is logged, one second
\* is slept and False is returned
_recover_alternative_selectors ==
    /\ recovery.pc = "selectors"
    /\ LET next == after_strategy(FALSE)
       IN  recovery' =
             [recovery EXCEPT
                !.sleeps = Append(@, [num |-> 1, den |-> 1]),
                !.gated = "False",
                !.pc = next.pc,
                !.result = next.result]
    /\ UNCHANGED <<exec_vars, api_vars, rec_vars, replay_vars, plan_vars, web>>

\* suggestions Gemini returns: the confidence in tenths and whether the
\* suggested action raises when executed
Suggestions ==
    UNION {[1..n -> [confidence : {5, 7, 9}, raises : BOOLEAN]] : n \in 0..2}

RECURSIVE try_suggestions(_, _)
\* the loop over the suggestions from index k on: those with a confidence
\* above 0.6 are executed in the order of the list until one does not raise
try_suggestions(suggestions, k) ==
    IF k > Len(suggestions) THEN [ret |-> FALSE, executed |-> <<>>]
    ELSE IF suggestions[k].confidence * 10 > 60
      THEN IF ~suggestions[k].raises
             THEN [ret |-> TRUE, executed |-> <<k>>]
             ELSE [ret |-> try_suggestions(suggestions, k + 1).ret,
                   executed |->
                       <<k>> \o try_suggestions(suggestions, k + 1).executed]
    ELSE try_suggestions(suggestions, k + 1)

\* how the call of Gemini in _ai_powered_recovery ends
AiOutcomes == {"no_key", "raises", "decode_error", "suggestions"}

\* _ai_powered_recovery: False without a key, when Gemini raises or its
\* text is no JSON; else the eligible suggestions are tried
_ai_powered_recovery(outcome, suggestions) ==
    /\ recovery.pc = "ai"
    /\ LET tried == IF outcome = "suggestions"
                    THEN try_suggestions(suggestions, 1)
                    ELSE [ret |-> FALSE, executed |-> <<>>]
       IN  recovery' =
             [recovery EXCEPT
                !.tried = Append(@, "ai"),
                !.suggestions = suggestions,
                !.executed = tried.executed,
                !.pc = "idle",
                !.result = IF tried.ret THEN "True" ELSE "False"]
    /\ UNCHANGED <<exec_vars, api_vars, rec_vars, replay_vars, plan_vars, web>>

RecoveryNext ==
    \/ \E failed_step \in FailedSteps, message \in RecoveryMessages,
          screenshot_raises \in BOOLEAN :
          handle_failed_step_gates(failed_step, message, screenshot_raises)
    \/ \E pass \in ClickPasses : _recover_click_coordinates(pass)
    \/ \E raises_at \in 0..Len(focus_sequence), effect \in BOOLEAN :
          _recover_window_focus(raises_at, effect)
    \/ \E raises \in BOOLEAN : _recover_wait_and_retry(raises)
    \/ _recover_alternative_selectors
    \/ /\ recovery.pc = "ai"
       /\ \E outcome \in AiOutcomes :
             \E suggestions \in (IF outcome = "suggestions" THEN Suggestions
                                 ELSE {<<>>}) :
                _ai_powered_recovery(outcome, suggestions)

\* the recovery of failed steps, one call after the other
RecoverySpec == Init /\ [][RecoveryNext]_vars

\* ------------------------------------------------------------------------
\* Browsers (assistant_bot.py _execute_web_action, scrape_website_data;
\* api.py execute_automation in scrape mode)
\* ------------------------------------------------------------------------
\* plans of the steps that use a browser
WebPlans ==
    UNION {[1..n -> {"navigate_url", "scrape_website"}] : n \in 1..MaxWebPlan}

\* IntelligentWebScraper.start_browser: webdriver.Chrome raises (no
\* browser), or the browser is started and the script run in it raises
\* (False is returned with the browser open), or True is returned
StartOutcomes == {"ok", "fails", "script_raises"}

\* a browser process started for the running request
Started(W) == Append(W.browsers, [state |-> "open", request |-> W.request])

\* driver.quit() through a handle (0: the handle is None, nothing is done)
Quit(browsers, driver) ==
    IF driver = 0 THEN browsers
    ELSE [browsers EXCEPT ![driver].state = "closed"]

\* the request returns: its response is sent
Returned(W, body) ==
    [W EXCEPT !.pc = "idle", !.steps = <<>>, !.hung = FALSE,
              !.returned = @ \cup {W.request}, !.response = body]

\* POST /api/execute in scrape mode, lines 179-208: the worker thread is
\* started and the request thread joins it with the timeout
execute_automation_scrape ==
    /\ web.pc = "idle"
    /\ web.served < MaxWebRequests
    /\ web' = [web EXCEPT
                  !.pc = "join", !.request = web.served + 1,
                  !.served = @ + 1, !.response = "none",
                  !.workers = Append(@, [pc |-> "start",
                                         request |-> web.served + 1,
                                         hung |-> FALSE, result |-> FALSE])]
    /\ UNCHANGED <<exec_vars, api_vars, rec_vars, replay_vars, plan_vars,
                   recovery>>

\* the worker in scrape_website_data, lines 818-821: start_browser; hung
\* says that the extraction that follows never returns
scrape_website_data_start(w, outcome, hung) ==
    /\ w \in 1..Len(web.workers)
    /\ web.workers[w].pc = "start"
    /\ hung => outcome = "ok"
    /\ web' =
         IF outcome = "fails"
           THEN [web EXCEPT !.workers[w].pc = "done"]
         ELSE [web EXCEPT
                  !.browsers = Append(@, [state |-> "open",
                                          request |-> web.workers[w].request]),
                  !.scraper_driver = Len(web.browsers) + 1,
                  !.workers[w].pc = IF outcome = "ok" THEN "extract"
                                    ELSE "done",
                  !.workers[w].hung = hung]
    /\ UNCHANGED <<exec_vars, api_vars, rec_vars, replay_vars, plan_vars,
                   recovery>>

\* the worker in scrape_website_data, lines 823-860: the extraction returns
\* or raises, and the finally block closes the browser self.driver names
scrape_website_data_finally(w, success) ==
    /\ w \in 1..Len(web.workers)
    /\ web.workers[w].pc = "extract"
    /\ ~web.workers[w].hung
    /\ web' = [web EXCEPT
                  !.browsers = Quit(@, web.scraper_driver),
                  !.workers[w].pc = "done",
                  !.workers[w].result = success]
    /\ UNCHANGED <<exec_vars, api_vars, rec_vars, replay_vars, plan_vars,
                   recovery>>

\* the request thread after thread.join(timeout=30), lines 208-229: the
\* worker is still alive and the timeout is answered, or it is over and its
\* result is answered
scrape_join ==
    /\ web.pc = "join"
    /\ LET worker == web.workers[Len(web.workers)]
       IN  web' = Returned(web,
                     IF worker.pc # "done" THEN "Scraping timeout"
                     ELSE IF worker.result THEN "scraped" ELSE "failed")
    /\ UNCHANGED <<exec_vars, api_vars, rec_vars, replay_vars, plan_vars,
                   recovery>>

\* POST /api/execute in another mode, up to the call of
\* get_steps_from_gemini (line 241); hung says that the call of Gemini in
\* it never returns
execute_automation_plan(hung) ==
    /\ web.pc = "idle"
    /\ web.served < MaxWebRequests
    /\ web' = [web EXCEPT !.pc = "planning", !.hung = hung,
                          !.request = web.served + 1, !.served = @ + 1,
                          !.response = "none"]
    /\ UNCHANGED <<exec_vars, api_vars, rec_vars, replay_vars, plan_vars,
                   recovery>>

\* get_steps_from_gemini returns a plan (of web steps) and the loop begins
get_steps_from_gemini_returns(plan) ==
    /\ web.pc = "planning"
    /\ ~web.hung
    /\ web' = [web EXCEPT !.pc = "plan", !.steps = plan]
    /\ UNCHANGED <<exec_vars, api_vars, rec_vars, replay_vars, plan_vars,
                   recovery>>

\* the loop of the request after a step: the next step after a success,
\* the end of the loop after the last step or a failure
AfterStep(W, success) ==
    IF success /\ Len(W.steps) > 1
    THEN [W EXCEPT !.steps = Tail(@)]
    ELSE [W EXCEPT !.pc = "finish", !.steps = <<>>]

\* a step navigate_url in _execute_web_action: the browser of the
\* SeleniumController is started unless selenium_active is set (Chrome may
\* fail to start), then the page is asked for; exceptions give False
_execute_web_action_step(outcome) ==
    /\ web.pc = "plan"
    /\ Head(web.steps) = "navigate_url"
    /\ outcome = "start_raises" => ~web.selenium_active
    /\ LET running == IF web.selenium_active \/ outcome = "start_raises"
                      THEN web
                      ELSE [web EXCEPT
                               !.browsers = Started(web),
                               !.selenium_driver = Len(web.browsers) + 1,
                               !.selenium_active = TRUE]
       IN  web' = AfterStep(running, outcome = "ok")
    /\ UNCHANGED <<exec_vars, api_vars, rec_vars, replay_vars, plan_vars,
                   recovery>>

\* a step scrape_website in _execute_action, lines 198-200: start_browser,
\* and False at once when it returns False
scrape_website_start(outcome, hung) ==
    /\ web.pc = "plan"
    /\ Head(web.steps) = "scrape_website"
    /\ hung => outcome = "ok"
    /\ web' =
         IF outcome = "fails" THEN AfterStep(web, FALSE)
         ELSE LET running == [web EXCEPT
                                 !.browsers = Started(web),
                                 !.scraper_driver = Len(web.browsers) + 1]
              IN  IF outcome = "ok"
                  THEN [running EXCEPT !.pc = "plan_scrape", !.hung = hung]
                  ELSE AfterStep(running, FALSE)
    /\ UNCHANGED <<exec_vars, api_vars, rec_vars, replay_vars, plan_vars,
                   recovery>>

\* a step scrape_website, lines 201-209: the extraction returns and the
\* finally block closes the browser self.driver names
scrape_website_finally(success) ==
    /\ web.pc = "plan_scrape"
    /\ ~web.hung
    /\ web' = AfterStep([web EXCEPT
                            !.pc = "plan",
                            !.browsers = Quit(@, web.scraper_driver)],
                        success)
    /\ UNCHANGED <<exec_vars, api_vars, rec_vars, replay_vars, plan_vars,
                   recovery>>

\* after the loop, lines 275-285: the response is sent (close_all is called
\* nowhere)
finish_request ==
    /\ web.pc = "finish"
    /\ web' = Returned(web, "executed")
    /\ UNCHANGED <<exec_vars, api_vars, rec_vars, replay_vars, plan_vars,
                   recovery>>

\* the steps of the thread that serves the request
RequestThread ==
    \/ scrape_join
    \/ \E plan \in WebPlans : get_steps_from_gemini_returns(plan)
    \/ \E outcome \in {"ok", "start_raises", "action_raises"} :
          _execute_web_action_step(outcome)
    \/ \E outcome \in StartOutcomes, hung \in BOOLEAN :
          scrape_website_start(outcome, hung)
    \/ \E success \in BOOLEAN : scrape_website_finally(success)
    \/ finish_request

\* the steps of the scrape workers
WorkerThreads ==
    \/ \E w \in 1..MaxWebRequests, outcome \in StartOutcomes,
          hung \in BOOLEAN : scrape_website_data_start(w, outcome, hung)
    \/ \E w \in 1..MaxWebRequests, success \in BOOLEAN :
          scrape_website_data_finally(w, success)

WebNext ==
    \/ execute_automation_scrape
    \/ \E hung \in BOOLEAN : execute_automation_plan(hung)
    \/ RequestThread
    \/ WorkerThreads

\* requests that use browsers; a thread that can take a step takes one
\* (a call marked hung never returns)
WebSpec ==
    Init /\ [][WebNext]_vars /\ WF_vars(RequestThread) /\ WF_vars(WorkerThreads)

\* ------------------------------------------------------------------------
\* Properties of the execution loop
\* ------------------------------------------------------------------------
\* the kinds execute_step retries (its own list)
InteractiveActions == {"click_element", "type_text"}

\* C1: when the step at position k is logged as failed, the run halts at k:
\* the log holds exactly k entries, no step behind k was ever started, and
\* the loop is left.
C1_HaltsAtFailedStep ==
    \A k \in 1..Len(log) :
        log[k].outcome = "Failed" =>
            /\ log[k].index = k
            /\ Len(log) = k
            /\ \A s \in 1..Len(started) : started[s] <= k
            /\ pc \in {"finish", "idle"}

\* a plan of three steps whose second step raised, was not recovered and
\* ended the run with a log of two entries
C1_Witness ==
    /\ pc = "finish"
    /\ Len(steps) = 3
    /\ Len(log) = 2
    /\ log[1].outcome = "Success"
    /\ log[2].outcome = "Failed"
    /\ trace[2].answer = "False"

\* C2 as stated: every step that execute_step reports as failed had the
\* recovery chain called exactly once, with the step and the last error.
C2_RecoveryOnEveryFailedStep ==
    (pc = "returned" /\ step_result = "False") =>
        /\ recoveries = 1
        /\ recovery_args.step = steps[i]
        /\ recovery_args.error = error_message

\* C3 as stated: the tries made for one action never exceed 2 for the
\* pointer-click and text-entry kinds and 1 for every other kind, a pass of
\* the click loop of click_desktop_coordinates being a try.
SpecMaxRetries(action) ==
    IF action \in {"click_element", "click_desktop_coordinates", "type_text"}
    THEN 2 ELSE 1

C3_TriesWithinSpecMaxRetries ==
    pc \in {"attempt", "recovery", "returned"} =>
        /\ dispatches <= SpecMaxRetries(steps[i])
        /\ clicks <= SpecMaxRetries(steps[i])

\* C3 amended: execute_step calls _execute_action at most twice for
\* click_element and type_text and at most once for every other kind
\* (click_desktop_coordinates included), a second call only after a failed
\* first one; the one call for click_desktop_coordinates makes at most three
\* passes of its click loop.
C3_DispatchesWithinMaxRetries ==
    pc \in {"attempt", "recovery", "returned"} =>
        /\ dispatches <= (IF steps[i] \in {"click_element", "type_text"}
                          THEN 2 ELSE 1)
        /\ dispatches >= 2 => failures >= dispatches - 1
        /\ clicks <= 3 * dispatches

\* a text entry that was dispatched twice
C3_Witness ==
    /\ pc = "returned"
    /\ steps[i] = "type_text"
    /\ dispatches = 2
    /\ failures >= 1

\* C4: an interactive step that failed fewer than 2 times has succeeded,
\* after exactly failures + 1 calls, and the recovery chain was not called.
C4_InteractiveRetrySucceeds ==
    (pc = "returned" /\ steps[i] \in InteractiveActions /\ failures < 2) =>
        /\ step_result = "True"
        /\ dispatches = failures + 1
        /\ recoveries = 0
        /\ recovery_answer = "none"

\* a text entry that failed once and then succeeded
C4_Witness ==
    /\ pc = "returned"
    /\ steps[i] = "type_text"
    /\ failures = 1
    /\ step_result = "True"
    /\ dispatches = 2

\* C5: a step whose attempts all failed and whose recovery answered True is
\* logged as a success and the loop goes on with the next step; when the
\* recovery answered False the step is logged as failed.
C5_RecoveryDecidesStep ==
    \A k \in 1..Len(log) :
        /\ trace[k].answer = "True" =>
              /\ log[k].outcome = "Success"
              /\ trace[k].failures = trace[k].dispatches
              /\ k < Len(steps) =>
                    \/ Len(log) > k
                    \/ (pc \in {"loop", "attempt", "recovery", "returned"}
                        /\ i = k + 1)
        /\ trace[k].answer = "False" => log[k].outcome = "Failed"

\* the first step was recovered and the second step was executed after it
C5_Witness ==
    /\ Len(log) = 2
    /\ trace[1].answer = "True"
    /\ log[1].outcome = "Success"
    /\ started = <<1, 2>>

\* C6: when the loop is left and no attempt of an executed step failed, all
\* N steps were executed in plan order and the log has N entries, all
\* successes.
C6_AllSucceedFirstAttempt ==
    (pc = "finish"
     /\ \A k \in 1..Len(trace) :
           trace[k].failures = 0 /\ trace[k].dispatches = 1) =>
        /\ Len(log) = Len(steps)
        /\ started = [k \in 1..Len(steps) |-> k]
        /\ \A k \in 1..Len(log) :
              /\ log[k].outcome = "Success"
              /\ log[k].index = k
              /\ log[k].action = steps[k]

\* a run of three steps that all succeeded at once
C6_Witness ==
    /\ pc = "finish"
    /\ Len(steps) = 3
    /\ Len(log) = 3
    /\ \A k \in 1..3 : trace[k].failures = 0 /\ log[k].outcome = "Success"

\* C7: a step whose kind _execute_action has no branch for is a handled
\* failure: execute_step returns False (no exception leaves it), no handler
\* and no recovery ran for it, and the run halts at that step.
C7_UnknownKindHandled ==
    /\ (pc = "returned" /\ steps[i] \notin DispatchedActions) =>
          /\ step_result = "False"
          /\ handlers = 0
          /\ recoveries = 0
    /\ \A k \in 1..Len(log) :
          log[k].action \notin DispatchedActions =>
              /\ log[k].outcome = "Failed"
              /\ trace[k].handlers = 0
              /\ Len(log) = k
              /\ \A s \in 1..Len(started) : started[s] <= k

\* an unknown kind in the middle of a plan ended the run
C7_Witness ==
    /\ pc = "finish"
    /\ Len(steps) = 3
    /\ Len(log) = 2
    /\ log[2].action = "launch_rocket"
    /\ log[2].outcome = "Failed"

\* ------------------------------------------------------------------------
\* Properties of the recorder
\* ------------------------------------------------------------------------
\* the sessions that are armed with live listeners: the recorder that owns
\* the session is recording it and a listener of the session runs
ArmedSessions ==
    {s \in 1..Len(sessions) :
        /\ rec[sessions[s].owner].recording
        /\ rec[sessions[s].owner].session = s
        /\ (sessions[s].mouse = "running" \/ sessions[s].keyboard = "running")}

\* C8 as stated: in every reachable state at most one recording session
\* with live listeners is armed in the process.
C8_AtMostOneArmedSession == Cardinality(ArmedSessions) <= 1

\* C9 as stated: when start_recording, called while a session was armed,
\* returns True, the prior session's listeners are stopped, the recorder is
\* armed with the new session only, carries the new name, and no event of
\* the prior session is in its buffer.
C9_StartWhileArmed ==
    [][(/\ caller.pc = "start_listeners"
        /\ caller.prior # 0
        /\ caller'.pc = "idle"
        /\ caller'.result = "True") =>
           LET r == caller.r
               s == Len(sessions)
               R == rec'[r]
           IN  /\ R.recording
               /\ R.session = s
               /\ R.workflow_name = caller.name
               /\ sessions'[caller.prior].mouse # "running"
               /\ sessions'[caller.prior].keyboard # "running"
               /\ \A k \in 1..Len(R.recorded_actions) :
                     R.recorded_actions[k].session = s]_vars

\* the events of a sequence a are, in order, the first events of b
IsPrefix(a, b) ==
    /\ Len(a) <= Len(b)
    /\ \A k \in 1..Len(a) : a[k] = b[k]

\* C10 as stated: a stop_recording that races with a callback loses and
\* corrupts nothing: every event a callback of a session appended is in the
\* artifact persisted for that session, no event is appended after the
\* session's state was cleared, and no callback faults on reset state.
C10_StopRaceIsHarmless ==
    /\ "stop" \notin faulted
    /\ "stop" \notin late
    /\ \A f \in DOMAIN files :
          files[f].session # 0 =>
              IsPrefix(appended[files[f].session], files[f].actions)

\* C11: stop while the recorder is idle is a no-op: the request answers
\* "No active recording to stop", no file is written and the recorder, its
\* listeners and the stored files are as before; so a second stop right
\* after a stop persists nothing more.
C11_StopWhileIdleIsNoOp ==
    [][(api_stop_recording /\ ~rec[current_executor].recording) =>
          /\ caller'.pc = "idle"
          /\ caller'.result = "No active recording to stop"
          /\ rec' = rec
          /\ files' = files
          /\ sessions' = sessions]_vars

\* a stop answered "no active recording" after a session was stopped and
\* saved: one file is stored
C11_Witness ==
    /\ caller.pc = "idle"
    /\ caller.result = "No active recording to stop"
    /\ Cardinality(DOMAIN files) = 1
    /\ Len(sessions) = 1
    /\ sessions[1].cleared = "stop"
    /\ ~rec[1].recording


\* C12 as stated: a stop of an armed session whose buffer is empty does not
\* return an artifact identifier (and so stores no artifact).
C12_EmptyStopReturnsNoArtifact ==
    [][(/\ caller.pc = "stop_save"
        /\ ~caller.in_start
        /\ rec[caller.r].recorded_actions = <<>>
        /\ caller'.pc = "idle") =>
           /\ caller'.result # "saved"
           /\ files' = files]_vars


\* C13 as stated: whenever a stop called on an armed session returns, the
\* recorder is not armed, its buffer is empty and its name and start time
\* are unset.
C13_StopClearsState ==
    [][(/\ caller.pc = "stop_save"
        /\ ~caller.in_start
        /\ caller'.pc = "idle") =>
           LET R == rec'[caller.r]
           IN  /\ ~R.recording
               /\ R.recorded_actions = <<>>
               /\ R.workflow_name = NoName
               /\ R.start_time = NoTime]_vars


\* C14: when the write of the workflow fails during a stop, the stop still
\* leaves the recorder idle with both listener handles released and both
\* listeners of the stopped session stopped; no artifact is stored.
C14_FailedSaveStillStopsListeners ==
    [][_save_workflow(FALSE) =>
          LET r == caller.r
              s == rec[r].session
          IN  /\ ~rec'[r].recording
              /\ rec'[r].mouse_listener = 0
              /\ rec'[r].keyboard_listener = 0
              /\ s # 0 => /\ sessions'[s].mouse # "running"
                          /\ sessions'[s].keyboard # "running"
              /\ files' = files]_vars

\* a stop that came back without a file: the recorder is idle, its session
\* still named, and nothing is stored
C14_Witness ==
    /\ caller.pc = "idle"
    /\ caller.result = "None"
    /\ files = <<>>
    /\ rec[1].workflow_name # NoName
    /\ rec[1].session = 1
    /\ sessions[1].mouse = "stopped"
    /\ sessions[1].keyboard = "stopped"


\* C15 as stated: force_stop returns normally in every recorder state, also
\* when a listener's stop() raises, and leaves the recorder idle with both
\* listener handles released and buffer, name and start time cleared.
C15_ForceStopReleasesEverything ==
    [][(\E mouse_raises, keyboard_raises \in BOOLEAN :
           force_stop(mouse_raises, keyboard_raises)) =>
          LET R == rec'[current_executor]
          IN  /\ caller'.pc = "idle"
              /\ caller'.result = "Recording force stopped"
              /\ ~R.recording
              /\ R.mouse_listener = 0
              /\ R.keyboard_listener = 0
              /\ R.recorded_actions = <<>>
              /\ R.workflow_name = NoName
              /\ R.start_time = NoTime]_vars


\* C16 as stated: when the key callback of the armed session handles
\* Escape, the key is not appended, the recorder becomes idle, and the
\* events captured before it are stored as an artifact of the session.
C16_EscapeStopsAndSaves ==
    [][\A l \in Listeners :
          (/\ callbacks[l].pc = "esc"
           /\ callbacks'[l].pc = "idle"
           /\ rec[sessions[l[1]].owner].recording
           /\ rec[sessions[l[1]].owner].session = l[1]) =>
              LET r == sessions[l[1]].owner
              IN  /\ appended' = appended
                  /\ ~rec'[r].recording
                  /\ \E f \in DOMAIN files' :
                        /\ files'[f].session = l[1]
                        /\ files'[f].actions = rec[r].recorded_actions]_vars

\* C35: the buffer of a recorder grows only while the recorder is armed
\* (recording, stop event clear), and only by a press of a pointer button,
\* a scroll or a press of a key: releases, and events that come while the
\* recorder is idle, leave it as it is.
C35_BufferGrowsOnlyWhileArmed ==
    [][\A r \in 1..MaxExecutors :
          Len(rec'[r].recorded_actions) > Len(rec[r].recorded_actions) =>
             /\ rec[r].recording
             /\ ~rec[r].stop_event
             /\ Len(rec'[r].recorded_actions)
                   = Len(rec[r].recorded_actions) + 1
             /\ LET e == rec'[r].recorded_actions[
                             Len(rec'[r].recorded_actions)]
                IN  /\ e.type \in {"mouse_click", "mouse_scroll", "key_press"}
                    /\ e.key \notin {"release", "esc"}]_vars

\* C38: whenever a recorder is idle (not recording, and no start or stop of
\* it in progress) no listener of a session it started is running, also
\* after a start that failed between the starts of its two listeners.
C38_NoListenerWhileIdle ==
    \A s \in 1..Len(sessions) :
        (~rec[sessions[s].owner].recording /\ caller.pc = "idle") =>
            /\ sessions[s].mouse # "running"
            /\ sessions[s].keyboard # "running"

\* C39: in every stored workflow the field actions_count is the number of
\* entries of the list actions, also when a callback appends an event
\* while the stop that stores it is in progress.
C39_ActionsCountIsLength ==
    \A f \in DOMAIN files :
        /\ files[f].actions_count = Len(files[f].actions)
        /\ json_load(files[f].text).actions_count
              = Len(json_load(files[f].text).actions)


\* ------------------------------------------------------------------------
\* Properties of stored workflows and of the replayer
\* ------------------------------------------------------------------------
\* the members of the recorded actions that the file holds
Strip(actions) ==
    [k \in 1..Len(actions) |->
        [type |-> actions[k].type, key |-> actions[k].key,
         timestamp |-> actions[k].timestamp]]

C18_StopNeverOverwrites ==
    [][\A f \in DOMAIN files :
          /\ f \in DOMAIN files'
          /\ (files[f].actions # <<>> /\ files'[f].actions # <<>>)
                => files'[f].session = files[f].session]_vars


\* C19: a replay of a stored workflow that holds no events fails cleanly:
\* the call returns False (and raises nothing).
C19_EmptyReplayReturnsFalse ==
    [][\A workflow_file \in WorkflowIds, speed_multiplier \in Speeds :
          (/\ resolve(workflow_file).key \in DOMAIN files
           /\ files[resolve(workflow_file).key].actions = <<>>
           /\ replay_workflow(workflow_file, speed_multiplier, FALSE))
          => replay'.result = "False"]_vars

\* C20: a replay of a workflow whose list of events is empty returns True at
\* once: the call is over in the same step, no sleep was taken (the settle
\* sleep included) and no input was asked of pyautogui.
C20_EmptyReplaySucceedsAtOnce ==
    [][\A workflow_file \in WorkflowIds, speed_multiplier \in Speeds :
          (/\ resolve(workflow_file).key \in DOMAIN files
           /\ json_load(files[resolve(workflow_file).key].text).actions = <<>>
           /\ replay_workflow(workflow_file, speed_multiplier, FALSE))
          => /\ replay'.result = "True"
             /\ replay'.pc = "idle"
             /\ replay'.sleeps = <<>>
             /\ replay'.emitted = <<>>]_vars

\* a replay of a stored workflow without events has returned
C20_Witness ==
    /\ replay.pc = "idle"
    /\ replay.result = "True"
    /\ replay.workflow_file \in DOMAIN files
    /\ files[replay.workflow_file].actions_count = 0
    /\ json_load(files[replay.workflow_file].text).actions = <<>>
    /\ replay.sleeps = <<>>
    /\ replay.emitted = <<>>


\* C21: a replay of an identifier whose file does not exist, or whose file
\* open or json.load raises on, returns False: nothing is raised to the
\* caller, no sleep is taken and no input is asked of pyautogui.
C21_MissingFileReturnsFalse ==
    [][\A workflow_file \in WorkflowIds, speed_multiplier \in Speeds,
          load_raises \in BOOLEAN :
          (/\ resolve(workflow_file).key \notin DOMAIN files \/ load_raises
           /\ replay_workflow(workflow_file, speed_multiplier, load_raises))
          => /\ replay'.result = "False"
             /\ replay'.pc = "idle"
             /\ replay'.sleeps = <<>>
             /\ replay'.emitted = <<>>
             /\ replay'.attempted = <<>>]_vars

\* a replay of a name no file has was answered
C21_Witness ==
    /\ replay.pc = "idle"
    /\ replay.result = "False"
    /\ replay.workflow_file \notin DOMAIN files
    /\ replay.emitted = <<>>

\* the numbers 1, ..., n in order
UpTo(n) == [k \in 1..n |-> k]

\* C22: a failure in the pass of one action does not end a replay: the
\* passes entered are those of the actions before the current one, in the
\* recorded order, whether or not earlier passes failed, and the replay of
\* a workflow with actions ends with every action attempted and True
\* returned.
C22_FailedActionIsSkipped ==
    /\ replay.pc = "loop" =>
          /\ replay.attempted = UpTo(replay.k - 1)
          /\ replay.result = "none"
    /\ (replay.pc = "idle" /\ replay.actions # <<>>) =>
          /\ replay.attempted = UpTo(Len(replay.actions))
          /\ replay.result = "True"
    /\ replay.failed \subseteq 1..Len(replay.attempted)

\* a replay of two actions whose first pass failed: the second action was
\* attempted and emitted, and True was returned
C22_Witness ==
    /\ replay.pc = "idle"
    /\ replay.result = "True"
    /\ Len(replay.actions) = 2
    /\ replay.failed = {1}
    /\ replay.attempted = <<1, 2>>
    /\ replay.emitted = Emitted(replay.actions[2])

RECURSIVE DelaysBetweenEvents(_, _, _)
\* the sleeps of the actions j.. of a workflow when each delay is counted
\* from the timestamp of the action just before it in the workflow (0 for
\* the first), divided by the speed and capped at two seconds; a delay of
\* zero is no sleep
DelaysBetweenEvents(actions, speed, j) ==
    IF j > Len(actions) THEN <<>>
    ELSE LET previous == IF j = 1 THEN 0 ELSE actions[j - 1].timestamp
             diff == actions[j].timestamp - previous
         IN  (IF diff <= 0 THEN <<>>
              ELSE IF diff > 2 * speed THEN <<[num |-> 2, den |-> 1]>>
              ELSE <<[num |-> diff, den |-> speed]>>)
             \o DelaysBetweenEvents(actions, speed, j + 1)

\* C33: a replay with a speed multiplier above 0 sleeps, before each
\* action, min(delay, 2.0) seconds, the delay being the time between the
\* action and the one just before it in the workflow divided by the speed
\* multiplier; no sleep between two actions is longer than 2 seconds.
C33_SleepsBetweenEvents ==
    (replay.pc = "idle" /\ replay.actions # <<>>
       /\ replay.speed_multiplier > 0) =>
        LET taken == Tail(replay.sleeps)
            due == DelaysBetweenEvents(replay.actions,
                                       replay.speed_multiplier, 1)
        IN  /\ Len(taken) = Len(due)
            /\ \A j \in 1..Len(taken) :
                  /\ taken[j].num * due[j].den = due[j].num * taken[j].den
                  /\ taken[j].num <= 2 * taken[j].den

\* C40: a replay of a workflow with actions that returns True came to the
\* input call of every action once, in the order of the workflow, whatever
\* the speed multiplier (0 too).
C40_EveryEventAttempted ==
    (replay.pc = "idle" /\ replay.result = "True"
       /\ replay.actions # <<>>) =>
        replay.reached = UpTo(Len(replay.actions))

\* the names pyautogui knows the mapped keys by
CanonicalKeys ==
    {"ctrl", "alt", "shift", "cmd", "escape", "enter", "tab", "space",
     "backspace", "delete"}

\* C34: the mapping of key names of the replay is idempotent, and the
\* names ctrl, alt, shift, cmd, escape, enter, tab, space, backspace and
\* delete map to themselves; so every key the replay presses is a name
\* the mapping leaves as it is.
C34_KeyMappingIdempotent ==
    /\ \A key \in KeyNames \cup CanonicalKeys :
          mapped_key(mapped_key(key)) = mapped_key(key)
    /\ \A key \in CanonicalKeys : mapped_key(key) = key
    /\ \A j \in 1..Len(replay.emitted) :
          replay.emitted[j].call = "press" =>
              mapped_key(replay.emitted[j].key) = replay.emitted[j].key

\* the replay of a recorded esc pressed escape
C34_Witness ==
    /\ replay.pc = "idle"
    /\ replay.result = "True"
    /\ Len(replay.actions) = 1
    /\ replay.actions[1].key = "esc"
    /\ replay.emitted = <<[call |-> "press", key |-> "escape"]>>


\* ------------------------------------------------------------------------
\* Properties of the planner and of the stop request
\* ------------------------------------------------------------------------
\* C23: when Gemini gives no plan the request ends at once with the
\* failure as its response and no step of any plan is started.
C23_PlannerFailureSurfaces ==
    planner = "failed" =>
        /\ pc = "idle"
        /\ started = <<>>
        /\ response \in {"Could not generate execution steps",
                         "Error generating steps"}

\* C24: once a stop request was answered during the execution of a plan no
\* further step of the plan is started: the steps started are those that
\* had been started when the request was answered.
C24_StopPreventsNextAction ==
    stops # -1 => Len(started) = stops

\* C36: every kind of step a fallback plan holds has a branch in
\* _execute_action, so the run of a fallback plan ends before its last
\* step only at a step whose handler ran and failed, never in the arm of
\* the unknown kinds.
C36_FallbackKindsDispatched ==
    planner = "failed" =>
        /\ \A k \in 1..Len(log) : log[k].action \in DispatchedActions
        /\ \A k \in 1..Len(log) :
              log[k].outcome = "Failed" => trace[k].handlers > 0


\* ------------------------------------------------------------------------
\* Properties of the error recovery
\* ------------------------------------------------------------------------
\* C28: within one call of handle_failed_step the first strategy that
\* returns True ends the chain: a gated strategy that succeeded is the only
\* strategy of the call and the call returns True; the AI-powered recovery
\* is entered last, and only when no gate matched or the gated strategy
\* returned False.
C28_FirstSuccessEndsChain ==
    /\ Len(recovery.tried) <= 2
    /\ \A j \in 1..Len(recovery.tried) :
          recovery.tried[j] = "ai" => j = Len(recovery.tried)
    /\ (recovery.tried # <<>> /\ recovery.tried[1] = "ai") =>
          recovery.gated = "none"
    /\ recovery.gated = "True" =>
          /\ Len(recovery.tried) = 1
          /\ recovery.pc = "idle"
          /\ recovery.result = "True"
          /\ recovery.executed = <<>>
    /\ (Len(recovery.tried) = 2) =>
          /\ recovery.tried[1] # "ai"
          /\ recovery.tried[2] = "ai"
          /\ recovery.gated = "False"
    /\ recovery.result = "True" =>
          (recovery.gated = "True"
              \/ recovery.tried[Len(recovery.tried)] = "ai")

\* a call whose wait-and-retry returned True at once: nothing else was tried
C28_Witness ==
    /\ recovery.pc = "idle"
    /\ recovery.result = "True"
    /\ recovery.tried = <<"wait">>
    /\ recovery.gated = "True"
    /\ recovery.sleeps = <<[num |-> 2, den |-> 1]>>

RECURSIVE PointsClicked(_, _, _)
\* the points of the passes j.. of P that clicked, for the offsets in the
\* order (0,0), (10,0), (-10,0), (0,10), (0,-10), (20,20), (-20,-20)
PointsClicked(P, original, j) ==
    LET order == <<<<0, 0>>, <<10, 0>>, <<-10, 0>>, <<0, 10>>, <<0, -10>>,
                   <<20, 20>>, <<-20, -20>>>>
    IN  IF j > Len(P) THEN <<>>
        ELSE (IF P[j].clicked
              THEN <<<<original[1] + order[j][1], original[2] + order[j][2]>>>>
              ELSE <<>>) \o PointsClicked(P, original, j + 1)

\* C29: the coordinate recovery goes through the offsets (0,0), (10,0),
\* (-10,0), (0,10), (0,-10), (20,20), (-20,-20) in this order, clicking
\* the original point moved by the offset; the pass after whose click a
\* screen change is registered is the last one and makes it return True,
\* and it returns False only after the pass of the seventh offset.
C29_OffsetsInOrder ==
    (recovery.tried # <<>> /\ recovery.tried[1] = "coordinates") =>
        LET P == recovery.passes
        IN  /\ Len(P) <= 7
            /\ \A j \in 1..Len(P) : P[j].k = j
            /\ \A j \in 1..(Len(P) - 1) : ~P[j].registered
            /\ recovery.clicks
                  = PointsClicked(P, recovery.failed_step.point, 1)
            /\ recovery.gated = "True" <=>
                  (P # <<>> /\ P[Len(P)].registered)
            /\ recovery.gated = "False" => Len(P) = 7
            /\ recovery.gated = "none" =>
                  (recovery.pc = "coordinates" /\ recovery.k = Len(P) + 1)

\* a coordinate recovery whose third click registered a change
C29_Witness ==
    /\ recovery.tried = <<"coordinates">>
    /\ recovery.gated = "True"
    /\ recovery.result = "True"
    /\ recovery.clicks = <<<<100, 200>>, <<110, 200>>, <<90, 200>>>>

\* C30 as stated: once the focus recovery was triggered it reports success,
\* whether or not its sequence of keys and clicks had an effect or ran to
\* its end.
C30_FocusAlwaysSucceeds ==
    (recovery.tried # <<>> /\ recovery.tried[1] = "focus"
       /\ recovery.pc # "focus") => recovery.gated = "True"

\* C30 amended: the focus recovery reports success exactly when its
\* sequence of keys and clicks ran to its end without an exception,
\* whether or not it had an effect; when a call of the sequence raises it
\* reports failure and the AI-powered recovery is next.
C30_FocusSucceedsWhenCompleted ==
    (recovery.tried # <<>> /\ recovery.tried[1] = "focus"
       /\ recovery.pc # "focus") =>
        /\ recovery.completed <=> recovery.gated = "True"
        /\ ~recovery.completed <=> recovery.gated = "False"
        /\ recovery.completed => recovery.emitted = focus_sequence
        /\ ~recovery.completed =>
              (Len(recovery.tried) = 2 \/ recovery.pc = "ai")

\* a focus recovery that ran to its end without any effect and reported
\* success
C30_Witness ==
    /\ recovery.tried = <<"focus">>
    /\ recovery.pc = "idle"
    /\ recovery.completed
    /\ ~recovery.effect
    /\ recovery.result = "True"

\* C31: the wait-and-retry recovery sleeps 2, then 5, then 10 seconds and
\* retries the failed action after each sleep; it returns True only when a
\* retry of the failed action was made and did not raise, and it returns
\* False when the three retries raised.
C31_WaitAndRetry ==
    (recovery.tried # <<>> /\ recovery.tried[1] = "wait") =>
        /\ Len(recovery.sleeps) <= 3
        /\ \A j \in 1..Len(recovery.sleeps) :
              recovery.sleeps[j] = [num |-> <<2, 5, 10>>[j], den |-> 1]
        /\ recovery.gated = "True" => Len(recovery.emitted) = 1
        /\ recovery.gated = "False" =>
              (Len(recovery.sleeps) = 3 /\ recovery.emitted = <<>>)

\* C32: the AI-powered recovery executes the suggestions by descending
\* confidence: when a suggestion is executed, every eligible suggestion
\* (confidence above 0.6) of a strictly higher confidence was executed
\* before it.
C32_DescendingConfidence ==
    LET S == recovery.suggestions
        E == recovery.executed
    IN  \A n \in 1..Len(E) :
           \A h \in 1..Len(S) :
              (S[h].confidence > 6
                  /\ S[h].confidence > S[E[n]].confidence) =>
                 \E j \in 1..(n - 1) : E[j] = h

\* the gated strategy the gates select for a step and a message: the first
\* of coordinate perturbation, focus recovery, wait-and-retry and
\* alternative selector whose gate matches
FirstGate(failed_step, message) ==
    IF failed_step.action = "click_desktop_coordinates" THEN "coordinates"
    ELSE IF message = "window focus lost" THEN "focus"
    ELSE IF message \in {"timeout", "Element not found"} THEN "wait"
    ELSE IF failed_step.action = "click_element" THEN "selectors"
    ELSE "none"

\* C37: one call of handle_failed_step enters at most one of the four gated
\* strategies, the one of the first gate that matches (step kind click,
\* message about focus or window, message about a timeout or something not
\* found, step kind click_element); whatever is entered after it is the
\* AI-powered recovery, and only after the gated strategy returned False.
C37_AtMostOneGatedStrategy ==
    (recovery.failed_step # <<>> /\ recovery.result # "raise") =>
        LET gate == FirstGate(recovery.failed_step, recovery.error_message)
            gated == {j \in 1..Len(recovery.tried) :
                         recovery.tried[j] # "ai"}
        IN  /\ Cardinality(gated) <= 1
            /\ gate = "none" => gated = {}
            /\ gate # "none" =>
                  (gated = {1} /\ recovery.tried[1] = gate)
            /\ \A j \in 2..Len(recovery.tried) :
                  recovery.tried[j] = "ai" /\ recovery.gated = "False"

\* a click whose message speaks of the window: the coordinate recovery was
\* selected, it failed, and the AI-powered recovery was the only other
\* strategy
C37_Witness ==
    /\ recovery.failed_step # <<>>
    /\ recovery.failed_step.action = "click_desktop_coordinates"
    /\ recovery.error_message = "window focus lost"
    /\ recovery.tried = <<"coordinates", "ai">>
    /\ recovery.pc = "idle"


\* ------------------------------------------------------------------------
\* Properties of the browsers and of the deadlines
\* ------------------------------------------------------------------------
\* C25: in every reachable state at most one browser is open.
C25_AtMostOneBrowser ==
    Cardinality({b \in 1..Len(web.browsers) :
                    web.browsers[b].state = "open"}) <= 1

\* C26: every browser started for a request is closed when the request has
\* returned, whatever the outcome of the request.
C26_BrowsersClosedAtReturn ==
    \A b \in 1..Len(web.browsers) :
        web.browsers[b].request \in web.returned
            => web.browsers[b].state = "closed"

====
